---- MODULE Spec2Model ----
(***************************************************************************)
(* Verification model of the cennso-website lint scripts (src/scripts).    *)
(*                                                                         *)
(* Three programs are modelled, each by its own specification over the     *)
(* shared variables below:                                                 *)
(*   SpecLinks - check-internal-links.py  main()                           *)
(*   SpecSD    - validate-structured-data.py  main() and its validators    *)
(*   SpecScan  - the source scanners (check-compatible.py and the          *)
(*               exit-status rule of every graded checker)                 *)
(* Python strings are TLA+ strings; slicing, searching and urlparse are    *)
(* computed character by character with Len and SubSeq.                    *)
(***************************************************************************)
EXTENDS Integers, Sequences, FiniteSets, TLC

VARIABLES
    pc,                 \* position of main(): which statement runs next
    html_files,         \* list(build_dir.glob("**/*.html")), in enumeration order
    fs,                 \* the file tree: relative path -> file content
    public_files,       \* files of the static public/ directory (URL paths)
    idx,                \* index of the next file of the scan loop (1-based)
    all_pages,          \* check-internal-links: set of valid routes
    all_broken_links,   \* check-internal-links: list of (source_page, href)
    exit_code,          \* process exit status, -1 while running
    run,                \* 1 on the first run of the program, 2 on the rerun
    prev_report,        \* report of the first run (kept for the rerun)
    prev_exit,          \* exit status of the first run
    exc,                \* name of the exception that ended the process, "" if none
    sidx,               \* validate-structured-data: index of the next script of the page
    block,              \* validate-structured-data: json_ld_string of the last call
    result,             \* validate-structured-data: outcome of the last call
    all_errors,         \* validate-structured-data: list of error lines
    all_warnings,       \* validate-structured-data: list of warning lines
    pages_with_schemas, \* validate-structured-data: counter
    total_schemas,      \* validate-structured-data: counter
    script,             \* the accessibility checker that runs
    files,              \* the accessibility checkers: list of files to scan
    all_issues,         \* the accessibility checkers: list of collected issues
    report              \* check-compatible: the printed groups, in print order

\* the variables of validate-structured-data.py alone
sd_vars == <<sidx, block, result, all_errors, all_warnings, pages_with_schemas,
             total_schemas>>

\* the variables of check-internal-links.py alone
link_vars == <<public_files, all_pages, all_broken_links, run, prev_report, prev_exit>>

\* the variables of the accessibility checkers alone
scan_vars == <<script, files, all_issues, report>>

vars == <<pc, html_files, fs, idx, exit_code, exc, link_vars, sd_vars, scan_vars>>

\* validate-structured-data: the type check has not been made
NotChecked == [exc |-> "", valid |-> FALSE, message |-> "<not called>", types |-> <<>>]

\* validate-structured-data: no block has been validated yet
NoResult ==
    [exc |-> "", valid |-> FALSE, errors |-> <<>>, warnings |-> <<>>,
     calls |-> <<>>, type_check |-> NotChecked]

(***************************************************************************)
(* Bounds                                                                  *)
(***************************************************************************)
MaxFiles == 2

(***************************************************************************)
(* Python string primitives                                                *)
(***************************************************************************)
Char(s, i) == SubSeq(s, i, i)

\* s.startswith(p)
StartsWith(s, p) == Len(s) >= Len(p) /\ SubSeq(s, 1, Len(p)) = p

\* s.endswith(p)
EndsWith(s, p) == Len(s) >= Len(p) /\ SubSeq(s, Len(s) - Len(p) + 1, Len(s)) = p

\* s[:-n]
DropLast(s, n) == IF Len(s) > n THEN SubSeq(s, 1, Len(s) - n) ELSE ""

\* s[n:]
DropFirst(s, n) == IF Len(s) > n THEN SubSeq(s, n + 1, Len(s)) ELSE ""

\* s.find(c) for a one-character c, 1-based; 0 when absent
RECURSIVE FindFrom(_, _, _)
FindFrom(s, cs, i) ==
    IF i > Len(s) THEN 0
    ELSE IF Char(s, i) \in cs THEN i
    ELSE FindFrom(s, cs, i + 1)

FindChar(s, c) == FindFrom(s, {c}, 1)

Letters ==
    {"a","b","c","d","e","f","g","h","i","j","k","l","m","n","o","p","q","r",
     "s","t","u","v","w","x","y","z",
     "A","B","C","D","E","F","G","H","I","J","K","L","M","N","O","P","Q","R",
     "S","T","U","V","W","X","Y","Z"}

Digits == {"0","1","2","3","4","5","6","7","8","9"}

\* urllib.parse.scheme_chars
scheme_chars == Letters \cup Digits \cup {"+", "-", "."}

\* urllib.parse.urlsplit: the scheme is the text before the first ':' when
\* it starts with a letter and holds only scheme characters.
UrlHasScheme(url) ==
    LET i == FindChar(url, ":") IN
    /\ i > 1
    /\ Char(url, 1) \in Letters
    /\ \A k \in 1..(i - 1) : Char(url, k) \in scheme_chars

\* urlsplit: what is left after the scheme
UrlAfterScheme(url) ==
    IF UrlHasScheme(url) THEN DropFirst(url, FindChar(url, ":")) ELSE url

\* urlsplit: a leading '//' opens a netloc that runs to the next '/', '?' or '#'
UrlAfterNetloc(url) ==
    LET u == UrlAfterScheme(url) IN
    IF StartsWith(u, "//")
    THEN LET d == FindFrom(u, {"/", "?", "#"}, 3) IN
         IF d = 0 THEN "" ELSE DropFirst(u, d - 1)
    ELSE u

\* urlparse(href).path: fragment and query are cut off (the model's hrefs
\* hold no ';', so no params are split off)
UrlPath(url) ==
    LET u == UrlAfterNetloc(url)
        d == FindFrom(u, {"?", "#"}, 1)
    IN  IF d = 0 THEN u ELSE SubSeq(u, 1, d - 1)

(***************************************************************************)
(* check-internal-links.py                                                 *)
(***************************************************************************)
\* an anchor element without an href attribute
NoHref == "<no-href>"

\* a file whose bytes are not valid UTF-8
Undecodable == <<"<undecodable>">>

\* rendered pages of the build directory the model draws from
CandidateFiles == {"index.html", "about.html", "blog/index.html", "blog/post-1.html"}

\* page bodies: the href of every <a> element, in document order
PageBodies ==
    { <<>>,
      <<"/about", "/missing">>,
      <<"/blog", "/blog/">>,
      <<"#top", "mailto:a@b.io", "tel:123">>,
      <<"https://x.io/about", "/favicon.ico">>,
      <<"/", "/about/", "/about#team">>,
      <<NoHref, "about", "/about?x=1">>,
      <<"/blog/post-1", "//cdn.io/x", "">>,
      Undecodable }

PublicTrees == { {}, {"/favicon.ico"} }

\* str(file_path.relative_to(build_dir).with_suffix('')): the glob only
\* yields names ending in ".html"
with_suffix(rel) == DropLast(rel, 5)

\* lines 141-143 and 173-175: file path -> URL path
url_path_of(rel) ==
    LET url_path == "/" \o with_suffix(rel) IN
    IF EndsWith(url_path, "/index")
    THEN (IF DropLast(url_path, 5) = "" THEN "/" ELSE DropLast(url_path, 5))
    ELSE url_path

\* is_ignored without the test for anchor-only links
is_ignored_NoFragmentTest(href) ==
    \/ UrlHasScheme(href)
    \/ StartsWith(href, "mailto:")
    \/ StartsWith(href, "tel:")

\* line 161: external, mailto, tel and anchor-only links are ignored
is_ignored(href) ==
    \/ UrlHasScheme(href)
    \/ StartsWith(href, "#")
    \/ StartsWith(href, "mailto:")
    \/ StartsWith(href, "tel:")

\* lines 165-170: path of the href without its trailing slash
clean_path_of(href) ==
    LET clean_path == UrlPath(href) IN
    IF Len(clean_path) > 1 /\ EndsWith(clean_path, "/")
    THEN DropLast(clean_path, 1)
    ELSE clean_path

\* soup.find_all("a", href=True)
links_of(body) == SelectSeq(body, LAMBDA a : a # NoHref)

\* lines 157-176 for one file: the entries appended to all_broken_links
broken_in(rel, pages) ==
    LET links  == links_of(fs[rel])
        broken == SelectSeq(links,
                    LAMBDA href : ~is_ignored(href) /\ clean_path_of(href) \notin pages)
    IN  [i \in 1..Len(broken) |-> <<url_path_of(rel), broken[i]>>]

\* all orders in which the filesystem may enumerate a set of files
Orders(S) ==
    { o \in [1..Cardinality(S) -> S] : \A i, j \in 1..Cardinality(S) : i # j => o[i] # o[j] }

FileTrees ==
    { t \in SUBSET CandidateFiles : Cardinality(t) <= MaxFiles }

InitLinks ==
    /\ \E t \in FileTrees :
          /\ fs \in [t -> PageBodies]
          /\ html_files \in Orders(t)
          /\ pc \in (IF t = {} THEN {"start", "no_build_dir"} ELSE {"start"})
    /\ public_files \in PublicTrees
    /\ idx = 1
    /\ all_pages = {}
    /\ all_broken_links = <<>>
    /\ exit_code = -1
    /\ run = 1
    /\ prev_report = <<>>
    /\ prev_exit = -1
    /\ exc = ""
    /\ sidx = 1
    /\ block = ""
    /\ result = NoResult
    /\ all_errors = <<>>
    /\ all_warnings = <<>>
    /\ pages_with_schemas = 0
    /\ total_schemas = 0
    /\ script = "check-internal-links"
    /\ files = <<>>
    /\ all_issues = <<>>
    /\ report = <<>>

\* lines 125-128: the build directory does not exist
NoBuildDir ==
    /\ pc = "no_build_dir"
    /\ pc' = "done"
    /\ exit_code' = 1
    /\ UNCHANGED <<html_files, fs, public_files, idx, all_pages, all_broken_links,
                   run, prev_report, prev_exit, exc, sd_vars, scan_vars>>

\* lines 130-133: no HTML file in the build directory
NoHtmlFiles ==
    /\ pc = "start"
    /\ Len(html_files) = 0
    /\ pc' = "done"
    /\ exit_code' = 1
    /\ UNCHANGED <<html_files, fs, public_files, idx, all_pages, all_broken_links,
                   run, prev_report, prev_exit, exc, sd_vars, scan_vars>>

\* lines 137-144: the set of valid routes
BuildRoutes ==
    /\ pc = "start"
    /\ Len(html_files) > 0
    /\ all_pages' = { url_path_of(html_files[i]) : i \in 1..Len(html_files) }
    /\ idx' = 1
    /\ pc' = "scan"
    /\ UNCHANGED <<html_files, fs, public_files, all_broken_links, exit_code,
                   run, prev_report, prev_exit, exc, sd_vars, scan_vars>>

\* lines 152-176: one iteration of the scan loop on a readable file
ScanPage ==
    /\ pc = "scan"
    /\ idx <= Len(html_files)
    /\ fs[html_files[idx]] # Undecodable
    /\ all_broken_links' = all_broken_links \o broken_in(html_files[idx], all_pages)
    /\ idx' = idx + 1
    /\ UNCHANGED <<pc, html_files, fs, public_files, all_pages, exit_code,
                   run, prev_report, prev_exit, exc, sd_vars, scan_vars>>

\* lines 153-154: f.read() raises UnicodeDecodeError, nothing catches it
ScanPageRaises ==
    /\ pc = "scan"
    /\ idx <= Len(html_files)
    /\ fs[html_files[idx]] = Undecodable
    /\ pc' = "crashed"
    /\ exc' = "UnicodeDecodeError"
    /\ exit_code' = 1
    /\ UNCHANGED <<html_files, fs, public_files, idx, all_pages, all_broken_links,
                   run, prev_report, prev_exit, sd_vars, scan_vars>>

\* lines 178-188: the report and the exit status
ReportLinks ==
    /\ pc = "scan"
    /\ idx > Len(html_files)
    /\ pc' = "done"
    /\ exit_code' = IF Len(all_broken_links) > 0 THEN 1 ELSE 0
    /\ UNCHANGED <<html_files, fs, public_files, idx, all_pages, all_broken_links,
                   run, prev_report, prev_exit, exc, sd_vars, scan_vars>>

\* the script is run again on the unchanged tree; the filesystem may
\* enumerate the directory in another order
RerunLinks ==
    /\ pc = "done"
    /\ run = 1
    /\ Len(html_files) > 0
    /\ run' = 2
    /\ prev_report' = all_broken_links
    /\ prev_exit' = exit_code
    /\ html_files' \in Orders(DOMAIN fs)
    /\ pc' = "start"
    /\ idx' = 1
    /\ all_pages' = {}
    /\ all_broken_links' = <<>>
    /\ exit_code' = -1
    /\ UNCHANGED <<fs, public_files, exc, sd_vars, scan_vars>>

NextLinks ==
    \/ NoBuildDir
    \/ NoHtmlFiles
    \/ BuildRoutes
    \/ ScanPage
    \/ ScanPageRaises
    \/ ReportLinks
    \/ RerunLinks

SpecLinks == InitLinks /\ [][NextLinks]_vars

(***************************************************************************)
(* validate-structured-data.py: json.loads                                 *)
(*                                                                         *)
(* A JSON value is a record [k, s, e]: k is its kind ("obj", "list",       *)
(* "str", "num", "bool", "null"), s its text (strings, numbers, literals)  *)
(* and e its children: the elements of a list, the members of an object.   *)
(* A member is [k |-> "mem", s |-> key, e |-> <<value>>].                  *)
(* The decoder covers objects, arrays, numbers, strings with their escape  *)
(* sequences and the literals of json.loads.                               *)
(***************************************************************************)
JStr(t)     == [k |-> "str",  s |-> t,  e |-> <<>>]
JNum(t)     == [k |-> "num",  s |-> t,  e |-> <<>>]
JLit(kd, t) == [k |-> kd,     s |-> t,  e |-> <<>>]
JList(es)   == [k |-> "list", s |-> "", e |-> es]
JObj(ms)    == [k |-> "obj",  s |-> "", e |-> ms]
JMem(key, v) == [k |-> "mem", s |-> key, e |-> <<v>>]

\* the value None (no data)
NoData == [k |-> "none", s |-> "", e |-> <<>>]

\* a failed parse
ParseFail == [ok |-> FALSE, v |-> NoData, n |-> 0]

Whitespace == {" ", "\t", "\n", "\r"}

\* index of the first character at or after i that is not whitespace
RECURSIVE SkipWs(_, _)
SkipWs(t, i) ==
    IF i <= Len(t) /\ Char(t, i) \in Whitespace THEN SkipWs(t, i + 1) ELSE i

\* index just after the run of digits starting at i
RECURSIVE SkipDigits(_, _)
SkipDigits(t, i) ==
    IF i <= Len(t) /\ Char(t, i) \in Digits THEN SkipDigits(t, i + 1) ELSE i

\* the literals json.loads knows, longest first where one prefixes another
JsonLiterals ==
    << <<"true", "bool">>, <<"false", "bool">>, <<"null", "null">>,
       <<"NaN", "num">>, <<"-Infinity", "num">>, <<"Infinity", "num">> >>

StartsAt(t, p, i) ==
    i + Len(p) - 1 <= Len(t) /\ SubSeq(t, i, i + Len(p) - 1) = p

HexDigits == {"0", "1", "2", "3", "4", "5", "6", "7", "8", "9",
              "a", "b", "c", "d", "e", "f", "A", "B", "C", "D", "E", "F"}

HexVal(c) ==
    LET lower == "0123456789abcdef"
        upper == "0123456789ABCDEF"
        hits  == { x \in 1..16 : Char(lower, x) = c \/ Char(upper, x) = c }
    IN  (CHOOSE x \in hits : TRUE) - 1

\* the characters U+0020 .. U+005F and U+0061 .. U+007E in code point order
AsciiUpper == " !\"#$%&'()*+,-./0123456789:;<=>?@ABCDEFGHIJKLMNOPQRSTUVWXYZ[\\]^_"
AsciiLower == "abcdefghijklmnopqrstuvwxyz{|}~"

\* json.decoder BACKSLASH: the character an escape letter stands for.
\* \b and \f stay in their escaped form in the model's strings.
Unescape(c) ==
    CASE c = "n" -> "\n"
      [] c = "t" -> "\t"
      [] c = "r" -> "\r"
      [] c = "b" -> "\\b"
      [] c = "f" -> "\\f"
      [] OTHER   -> c

\* \uXXXX at i (i is the index of the u): the character for the code
\* points of AsciiUpper and AsciiLower, the escape as written for every
\* other code point
UnicodeEscape(t, i) ==
    LET code == 16 * HexVal(Char(t, i + 3)) + HexVal(Char(t, i + 4)) IN
    IF SubSeq(t, i + 1, i + 2) = "00" /\ code >= 32 /\ code <= 95
    THEN Char(AsciiUpper, code - 31)
    ELSE IF SubSeq(t, i + 1, i + 2) = "00" /\ code >= 97 /\ code <= 126
    THEN Char(AsciiLower, code - 96)
    ELSE "\\" \o SubSeq(t, i, i + 4)

\* py_scanstring from index i (after the opening quote) with the text
\* decoded so far: up to the closing quote; a raw control character, a
\* bad escape or a missing closing quote is an error
RECURSIVE ScanString(_, _, _)
ScanString(t, i, acc) ==
    LET j == FindFrom(t, {"\"", "\\", "\n", "\t", "\r"}, i) IN
    IF j = 0 THEN ParseFail
    ELSE IF Char(t, j) = "\"" THEN
        [ok |-> TRUE, v |-> JStr(acc \o SubSeq(t, i, j - 1)), n |-> j + 1]
    ELSE IF Char(t, j) # "\\" \/ j + 1 > Len(t) THEN ParseFail
    ELSE IF Char(t, j + 1) \in {"\"", "\\", "/", "b", "f", "n", "r", "t"} THEN
        ScanString(t, j + 2, acc \o SubSeq(t, i, j - 1) \o Unescape(Char(t, j + 1)))
    ELSE IF /\ Char(t, j + 1) = "u"
            /\ j + 5 <= Len(t)
            /\ \A x \in (j + 2)..(j + 5) : Char(t, x) \in HexDigits THEN
        ScanString(t, j + 6, acc \o SubSeq(t, i, j - 1) \o UnicodeEscape(t, j + 1))
    ELSE ParseFail

\* a string starts with a quote
ParseString(t, i) ==
    IF ~StartsAt(t, "\"", i) THEN ParseFail ELSE ScanString(t, i + 1, "")

\* a number: -? (0 | [1-9][0-9]*) (. [0-9]+)? ([eE] [-+]? [0-9]+)?
ParseNumber(t, i) ==
    LET a == IF StartsAt(t, "-", i) THEN i + 1 ELSE i
        b == IF StartsAt(t, "0", a) THEN a + 1 ELSE SkipDigits(t, a)
        c == IF StartsAt(t, ".", b) /\ SkipDigits(t, b + 1) > b + 1
             THEN SkipDigits(t, b + 1) ELSE b
        g == IF c <= Len(t) /\ Char(t, c) \in {"e", "E"}
             THEN (IF c + 1 <= Len(t) /\ Char(t, c + 1) \in {"+", "-"} THEN c + 2 ELSE c + 1)
             ELSE c
        d == IF g > c /\ SkipDigits(t, g) > g THEN SkipDigits(t, g) ELSE c
    IN  IF b = a THEN ParseFail
        ELSE [ok |-> TRUE, v |-> JNum(SubSeq(t, i, d - 1)), n |-> d]

ParseLiteral(t, i) ==
    LET hits == { x \in 1..Len(JsonLiterals) : StartsAt(t, JsonLiterals[x][1], i) } IN
    IF hits = {} THEN ParseFail
    ELSE LET x == CHOOSE y \in hits : TRUE IN
         [ok |-> TRUE, v |-> JLit(JsonLiterals[x][2], JsonLiterals[x][1]),
          n |-> i + Len(JsonLiterals[x][1])]

RECURSIVE ParseValue(_, _), ParseElems(_, _, _), ParseMembers(_, _, _)

\* JSONDecoder.scan_once at index i
ParseValue(t, i) ==
    IF i > Len(t) THEN ParseFail
    ELSE IF Char(t, i) = "\"" THEN ParseString(t, i)
    ELSE IF Char(t, i) = "{" THEN
        LET j == SkipWs(t, i + 1) IN
        IF StartsAt(t, "}", j) THEN [ok |-> TRUE, v |-> JObj(<<>>), n |-> j + 1]
        ELSE ParseMembers(t, j, <<>>)
    ELSE IF Char(t, i) = "[" THEN
        LET j == SkipWs(t, i + 1) IN
        IF StartsAt(t, "]", j) THEN [ok |-> TRUE, v |-> JList(<<>>), n |-> j + 1]
        ELSE ParseElems(t, j, <<>>)
    ELSE IF ParseLiteral(t, i).ok THEN ParseLiteral(t, i)
    ELSE ParseNumber(t, i)

\* the elements of an array, i at the first character of an element
ParseElems(t, i, acc) ==
    LET r == ParseValue(t, i) IN
    IF ~r.ok THEN ParseFail
    ELSE LET j == SkipWs(t, r.n) IN
         IF StartsAt(t, "]", j) THEN [ok |-> TRUE, v |-> JList(Append(acc, r.v)), n |-> j + 1]
         ELSE IF StartsAt(t, ",", j) THEN ParseElems(t, SkipWs(t, j + 1), Append(acc, r.v))
         ELSE ParseFail

\* the members of an object, i at the opening quote of a key
ParseMembers(t, i, acc) ==
    LET key == ParseString(t, i) IN
    IF ~key.ok THEN ParseFail
    ELSE LET c == SkipWs(t, key.n) IN
         IF ~StartsAt(t, ":", c) THEN ParseFail
         ELSE LET r == ParseValue(t, SkipWs(t, c + 1)) IN
              IF ~r.ok THEN ParseFail
              ELSE LET j   == SkipWs(t, r.n)
                       ms  == Append(acc, JMem(key.v.s, r.v))
                   IN  IF StartsAt(t, "}", j) THEN [ok |-> TRUE, v |-> JObj(ms), n |-> j + 1]
                       ELSE IF StartsAt(t, ",", j) THEN ParseMembers(t, SkipWs(t, j + 1), ms)
                       ELSE ParseFail

\* json.loads(text): one value between optional whitespace, nothing after it
json_loads(t) ==
    LET r == ParseValue(t, SkipWs(t, 1)) IN
    IF r.ok /\ SkipWs(t, r.n) = Len(t) + 1 THEN r ELSE ParseFail

\* lines 22-28; the message stands for f"JSON syntax error: {e}", the
\* position text of the decoder is left out
validate_json_syntax(json_ld) ==
    LET r == json_loads(json_ld) IN
    IF r.ok THEN [valid |-> TRUE,  data |-> r.v,    message |-> "Valid JSON"]
    ELSE         [valid |-> FALSE, data |-> NoData, message |-> "JSON syntax error"]

\* key in d, for a dict d
HasKey(d, key) == \E i \in 1..Len(d.e) : d.e[i].s = key

\* d[key]: with duplicate keys the last member wins
GetKey(d, key) ==
    LET hits == { i \in 1..Len(d.e) : d.e[i].s = key }
        last == CHOOSE i \in hits : \A j \in hits : j <= i
    IN  d.e[last].e[1]

\* d.get(key, default)
GetOr(d, key, default) == IF HasKey(d, key) THEN GetKey(d, key) ELSE default

(***************************************************************************)
(* validate-structured-data.py: the validators                             *)
(***************************************************************************)
\* lines 43-61
valid_types ==
    << "Organization", "Article", "BlogPosting", "BreadcrumbList", "LocalBusiness",
       "JobPosting", "Service", "Person", "WebSite", "WebPage", "FAQPage",
       "Question", "Answer", "PostalAddress", "GeoCoordinates", "ImageObject",
       "ContactPoint" >>

SeqRange(q) == { q[i] : i \in 1..Len(q) }

\* ', '.join(parts) for a list of str
RECURSIVE JoinComma(_)
JoinComma(parts) ==
    IF Len(parts) = 0 THEN ""
    ELSE IF Len(parts) = 1 THEN parts[1]
    ELSE parts[1] \o ", " \o JoinComma(Tail(parts))

\* type(v).__name__
PyTypeName(v) ==
    CASE v.k = "obj"  -> "dict"
      [] v.k = "list" -> "list"
      [] v.k = "str"  -> "str"
      [] v.k = "bool" -> "bool"
      [] v.k = "null" -> "NoneType"
      [] v.k = "num"  ->
            IF \E i \in 1..Len(v.s) : Char(v.s, i) \in {".", "e", "E", "N", "I"}
            THEN "float" ELSE "int"
      [] OTHER        -> "NoneType"

\* t in valid_types: only a str equals a str
InValidTypes(t) == t.k = "str" /\ t.s \in SeqRange(valid_types)

\* an exception leaving a function
Raise(name) == [exc |-> name, valid |-> FALSE, message |-> "", types |-> <<>>]

\* lines 31-90; the result carries exc # "" when the call raises
validate_schema_type(schema_data) ==
    IF schema_data.k # "obj" THEN Raise("AttributeError")           \* line 63: .get
    ELSE
    LET schema_type_raw == GetOr(schema_data, "@type", NoData) IN
    IF schema_type_raw.k \in {"none", "null"}
    THEN [exc |-> "", valid |-> FALSE, message |-> "@type is missing", types |-> <<>>]
    ELSE IF schema_type_raw.k \notin {"str", "list"}
    THEN [exc |-> "", valid |-> FALSE,
          message |-> "@type must be string or array, got " \o PyTypeName(schema_type_raw),
          types |-> <<>>]
    ELSE
    LET schema_types == IF schema_type_raw.k = "str" THEN <<schema_type_raw>>
                        ELSE schema_type_raw.e
        unrecognized_types == SelectSeq(schema_types, LAMBDA t : ~InValidTypes(t))
    IN  IF Len(unrecognized_types) > 0
        THEN IF \E i \in 1..Len(unrecognized_types) : unrecognized_types[i].k # "str"
             THEN Raise("TypeError")                                \* line 86: str.join
             ELSE [exc |-> "", valid |-> FALSE,
                   message |-> "Unrecognized @type values: "
                       \o JoinComma([i \in 1..Len(unrecognized_types) |-> unrecognized_types[i].s])
                       \o ". Valid types: " \o JoinComma(valid_types),
                   types |-> <<>>]
        ELSE [exc |-> "", valid |-> TRUE, message |-> "OK", types |-> schema_types]

AlNum == Letters \cup Digits

AllIn(t, cs) == \A i \in 1..Len(t) : Char(t, i) \in cs

\* t.split(c)
RECURSIVE SplitOn(_, _)
SplitOn(t, c) ==
    LET i == FindChar(t, c) IN
    IF i = 0 THEN <<t>> ELSE <<SubSeq(t, 1, i - 1)>> \o SplitOn(DropFirst(t, i), c)

\* [A-Z0-9](?:[A-Z0-9-]{0,61}[A-Z0-9])?
IsDomainLabel(t) ==
    /\ Len(t) >= 1 /\ Len(t) <= 63
    /\ AllIn(t, AlNum \cup {"-"})
    /\ Char(t, 1) \in AlNum /\ Char(t, Len(t)) \in AlNum

\* (?:label\.)+[A-Z]{2,6}\.?
IsDomainName(h) ==
    LET t     == IF EndsWith(h, ".") THEN DropLast(h, 1) ELSE h
        parts == SplitOn(t, ".")
        tld   == parts[Len(parts)]
    IN  /\ Len(parts) >= 2
        /\ Len(tld) >= 2 /\ Len(tld) <= 6 /\ AllIn(tld, Letters)
        /\ \A i \in 1..(Len(parts) - 1) : IsDomainLabel(parts[i])

\* \d{1,3}\.\d{1,3}\.\d{1,3}\.\d{1,3}
IsIPv4(h) ==
    LET parts == SplitOn(h, ".") IN
    /\ Len(parts) = 4
    /\ \A i \in 1..4 : Len(parts[i]) >= 1 /\ Len(parts[i]) <= 3 /\ AllIn(parts[i], Digits)

\* "localhost", matched with re.IGNORECASE
IsLocalhost(h) ==
    /\ Len(h) = 9
    /\ \A i \in 1..9 : Char(h, i) \in {Char("localhost", i), Char("LOCALHOST", i)}

\* index of the first character at or after i that is not in cs
RECURSIVE SkipWhile(_, _, _)
SkipWhile(t, cs, i) ==
    IF i <= Len(t) /\ Char(t, i) \in cs THEN SkipWhile(t, cs, i + 1) ELSE i

\* re.IGNORECASE on the letters of "http" and "https"
LowerOf(c) ==
    CASE c = "H" -> "h" [] c = "T" -> "t" [] c = "P" -> "p" [] c = "S" -> "s" [] OTHER -> c

\* lines 93-103: the whole url must match the pattern
validate_url_format(url) ==
    LET pre(p) == Len(url) >= Len(p) /\ \A i \in 1..Len(p) : LowerOf(Char(url, i)) = Char(p, i)
        start  == IF pre("https://") THEN 9 ELSE IF pre("http://") THEN 8 ELSE 0
        hend   == SkipWhile(url, AlNum \cup {"-", "."}, start)
        host   == SubSeq(url, start, hend - 1)
        pend   == IF StartsAt(url, ":", hend) /\ SkipDigits(url, hend + 1) > hend + 1
                  THEN SkipDigits(url, hend + 1) ELSE hend
        rest   == SubSeq(url, pend, Len(url))
    IN  /\ start > 0
        /\ IsDomainName(host) \/ IsLocalhost(host) \/ IsIPv4(host)
        /\ \/ rest = ""
           \/ rest = "/"
           \/ /\ Len(rest) >= 2
              /\ Char(rest, 1) \in {"/", "?"}
              /\ \A i \in 2..Len(rest) : Char(rest, i) \notin Whitespace

\* int(t) for a string of digits
RECURSIVE ToInt(_)
ToInt(t) ==
    IF Len(t) = 0 THEN 0
    ELSE 10 * ToInt(DropLast(t, 1))
         + (CHOOSE n \in 0..9 : Char("0123456789", n + 1) = Char(t, Len(t)))

\* str.replace('Z', '+00:00')
RECURSIVE ReplaceZ(_)
ReplaceZ(t) ==
    IF Len(t) = 0 THEN ""
    ELSE (IF Char(t, 1) = "Z" THEN "+00:00" ELSE Char(t, 1)) \o ReplaceZ(DropFirst(t, 1))

DaysInMonth(y, m) ==
    IF m = 2 THEN (IF (y % 4 = 0 /\ y % 100 # 0) \/ y % 400 = 0 THEN 29 ELSE 28)
    ELSE IF m \in {4, 6, 9, 11} THEN 30 ELSE 31

\* YYYY-MM-DD naming a day of the calendar
IsIsoDate(t) ==
    /\ Len(t) = 10
    /\ AllIn(SubSeq(t, 1, 4) \o SubSeq(t, 6, 7) \o SubSeq(t, 9, 10), Digits)
    /\ Char(t, 5) = "-" /\ Char(t, 8) = "-"
    /\ LET y == ToInt(SubSeq(t, 1, 4))
           m == ToInt(SubSeq(t, 6, 7))
           d == ToInt(SubSeq(t, 9, 10))
       IN  y >= 1 /\ m >= 1 /\ m <= 12 /\ d >= 1 /\ d <= DaysInMonth(y, m)

\* HH:MM or HH:MM:SS
IsIsoTime(t) ==
    /\ Len(t) \in {5, 8}
    /\ AllIn(SubSeq(t, 1, 2) \o SubSeq(t, 4, 5), Digits) /\ Char(t, 3) = ":"
    /\ ToInt(SubSeq(t, 1, 2)) <= 23 /\ ToInt(SubSeq(t, 4, 5)) <= 59
    /\ Len(t) = 8 =>
          /\ Char(t, 6) = ":" /\ AllIn(SubSeq(t, 7, 8), Digits)
          /\ ToInt(SubSeq(t, 7, 8)) <= 59

\* +HH:MM or -HH:MM, an offset of less than 24 hours
IsIsoOffset(t) ==
    /\ Len(t) = 6
    /\ Char(t, 1) \in {"+", "-"}
    /\ AllIn(SubSeq(t, 2, 3) \o SubSeq(t, 5, 6), Digits) /\ Char(t, 4) = ":"
    /\ 60 * ToInt(SubSeq(t, 2, 3)) + ToInt(SubSeq(t, 5, 6)) < 1440

\* datetime.fromisoformat accepts t: a date, optionally followed by one
\* separator character, a time and a UTC offset (no fractions of a second,
\* no week or ordinal dates)
fromisoformat_ok(t) ==
    /\ Len(t) >= 10
    /\ IsIsoDate(SubSeq(t, 1, 10))
    /\ \/ Len(t) = 10
       \/ Len(t) \in {16, 19} /\ IsIsoTime(SubSeq(t, 12, Len(t)))
       \/ /\ Len(t) \in {22, 25}
          /\ IsIsoTime(SubSeq(t, 12, Len(t) - 6))
          /\ IsIsoOffset(SubSeq(t, Len(t) - 5, Len(t)))

\* lines 106-112: a value that is not a str has no replace (AttributeError,
\* caught); a str that fromisoformat rejects raises ValueError (caught)
validate_date_format(date_str) ==
    date_str.k = "str" /\ fromisoformat_ok(ReplaceZ(date_str.s))

\* str(n) for a natural number
RECURSIVE IntStr(_)
IntStr(n) ==
    IF n < 10 THEN Char("0123456789", n + 1)
    ELSE IntStr(n \div 10) \o Char("0123456789", (n % 10) + 1)

\* repr of a str: in single quotes, or in double quotes when the text has
\* a single quote and no double quote; backslash, newline, tab and
\* carriage return are escaped
RECURSIVE ReprChars(_, _)
ReprChars(s, quote) ==
    IF s = "" THEN ""
    ELSE LET c == Char(s, 1) IN
         (CASE c = "\\" -> "\\\\"
            [] c = "\n" -> "\\n"
            [] c = "\t" -> "\\t"
            [] c = "\r" -> "\\r"
            [] c = quote -> "\\" \o c
            [] OTHER -> c) \o ReprChars(DropFirst(s, 1), quote)

StrRepr(s) ==
    IF FindChar(s, "'") # 0 /\ FindChar(s, "\"") = 0
    THEN "\"" \o ReprChars(s, "\"") \o "\""
    ELSE "'" \o ReprChars(s, "'") \o "'"

\* str of an int or float: the literal as written (-0 is the int 0; the
\* constants NaN and Infinity are floats)
NumStr(s) ==
    CASE s = "-0"        -> "0"
      [] s = "NaN"       -> "nan"
      [] s = "Infinity"  -> "inf"
      [] s = "-Infinity" -> "-inf"
      [] OTHER           -> s

\* the items of a dict: each key once, at its first position, with its
\* last value
RECURSIVE DictItems(_, _)
DictItems(d, x) ==
    IF x > Len(d.e) THEN <<>>
    ELSE (IF \E y \in 1..(x - 1) : d.e[y].s = d.e[x].s THEN <<>>
          ELSE << JMem(d.e[x].s, GetKey(d, d.e[x].s)) >>)
         \o DictItems(d, x + 1)

RECURSIVE PyRepr(_), ReprItems(_, _)

\* the items of a list or dict, separated by ", "
ReprItems(e, x) ==
    IF x > Len(e) THEN ""
    ELSE (IF x > 1 THEN ", " ELSE "")
         \o (IF e[x].k = "mem" THEN StrRepr(e[x].s) \o ": " \o PyRepr(e[x].e[1])
             ELSE PyRepr(e[x]))
         \o ReprItems(e, x + 1)

\* repr(v)
PyRepr(v) ==
    CASE v.k = "str"  -> StrRepr(v.s)
      [] v.k = "num"  -> NumStr(v.s)
      [] v.k = "bool" -> (IF v.s = "true" THEN "True" ELSE "False")
      [] v.k = "list" -> "[" \o ReprItems(v.e, 1) \o "]"
      [] v.k = "obj"  -> "{" \o ReprItems(DictItems(v, 1), 1) \o "}"
      [] OTHER        -> "None"

\* f"{v}": str(v), which is the text itself for a str and repr(v) otherwise
PyFormat(v) == IF v.k = "str" THEN v.s ELSE PyRepr(v)

\* v == text, for a str literal text
IsStr(v, text) == v.k = "str" /\ v.s = text

\* for prop in required: if prop not in d: errors.append(f"{who} missing '{prop}'")
RECURSIVE MissingProps(_, _, _)
MissingProps(d, required, who) ==
    IF Len(required) = 0 THEN <<>>
    ELSE (IF HasKey(d, Head(required)) THEN <<>>
          ELSE << who \o " missing '" \o Head(required) \o "'" >>)
         \o MissingProps(d, Tail(required), who)

\* lines 155-169: the checks on mainEntity[i]
FaqQuestionErrors(question, i) ==
    IF question.k # "obj"
    THEN << "FAQPage mainEntity[" \o IntStr(i) \o "] is not an object" >>
    ELSE
      (IF ~IsStr(GetOr(question, "@type", NoData), "Question")
       THEN << "FAQPage mainEntity[" \o IntStr(i) \o "] must have @type: Question" >>
       ELSE <<>>)
      \o (IF ~HasKey(question, "name")
          THEN << "FAQPage Question[" \o IntStr(i) \o "] missing 'name'" >> ELSE <<>>)
      \o (IF ~HasKey(question, "acceptedAnswer")
          THEN << "FAQPage Question[" \o IntStr(i) \o "] missing 'acceptedAnswer'" >>
          ELSE IF GetKey(question, "acceptedAnswer").k = "obj"
          THEN LET answer == GetKey(question, "acceptedAnswer") IN
               (IF ~IsStr(GetOr(answer, "@type", NoData), "Answer")
                THEN << "FAQPage Question[" \o IntStr(i) \o "] acceptedAnswer must have @type: Answer" >>
                ELSE <<>>)
               \o (IF ~HasKey(answer, "text")
                   THEN << "FAQPage Question[" \o IntStr(i) \o "] Answer missing 'text'" >>
                   ELSE <<>>)
          ELSE <<>>)

\* lines 154-169: enumerate(mainEntity) from position n (1-based)
RECURSIVE FaqErrorsFrom(_, _)
FaqErrorsFrom(entities, n) ==
    IF n > Len(entities) THEN <<>>
    ELSE FaqQuestionErrors(entities[n], n - 1) \o FaqErrorsFrom(entities, n + 1)

\* lines 120-124
ContextErrors(schema_data) ==
    IF ~HasKey(schema_data, "@context") THEN << "Missing @context" >>
    ELSE IF ~IsStr(GetKey(schema_data, "@context"), "https://schema.org")
    THEN << "Invalid @context: " \o PyFormat(GetKey(schema_data, "@context")) >>
    ELSE <<>>

\* lines 126-197
TypeSpecificErrors(schema_data, schema_type) ==
    IF IsStr(schema_type, "Organization") THEN
        MissingProps(schema_data, <<"name", "url">>, "Organization")
    ELSE IF IsStr(schema_type, "Article") \/ IsStr(schema_type, "BlogPosting") THEN
        MissingProps(schema_data, <<"headline", "author", "datePublished">>, schema_type.s)
        \o (IF HasKey(schema_data, "datePublished")
               /\ ~validate_date_format(GetKey(schema_data, "datePublished"))
            THEN << "Invalid datePublished format: "
                    \o PyFormat(GetKey(schema_data, "datePublished")) >>
            ELSE <<>>)
    ELSE IF IsStr(schema_type, "BreadcrumbList") THEN
        MissingProps(schema_data, <<"itemListElement">>, "BreadcrumbList")
    ELSE IF IsStr(schema_type, "FAQPage") THEN
        IF ~HasKey(schema_data, "mainEntity") THEN << "FAQPage missing 'mainEntity'" >>
        ELSE IF GetKey(schema_data, "mainEntity").k = "list" THEN
            (IF Len(GetKey(schema_data, "mainEntity").e) < 2
             THEN << "FAQPage must have at least 2 questions" >> ELSE <<>>)
            \o FaqErrorsFrom(GetKey(schema_data, "mainEntity").e, 1)
        ELSE <<>>
    ELSE IF IsStr(schema_type, "LocalBusiness") THEN
        MissingProps(schema_data, <<"name", "address", "telephone">>, "LocalBusiness")
        \o (IF HasKey(schema_data, "address") /\ GetKey(schema_data, "address").k = "obj"
            THEN LET address == GetKey(schema_data, "address") IN
                 (IF ~IsStr(GetOr(address, "@type", NoData), "PostalAddress")
                  THEN << "LocalBusiness address must have @type: PostalAddress" >>
                  ELSE <<>>)
                 \o MissingProps(address,
                        <<"streetAddress", "addressLocality", "postalCode", "addressCountry">>,
                        "LocalBusiness PostalAddress")
            ELSE <<>>)
    ELSE IF IsStr(schema_type, "Person") THEN
        MissingProps(schema_data, <<"name", "url">>, "Person")
    ELSE IF IsStr(schema_type, "JobPosting") THEN
        MissingProps(schema_data,
            <<"title", "description", "datePosted", "hiringOrganization">>, "JobPosting")
    ELSE <<>>

\* lines 115-199, for a dict schema_data
validate_required_properties(schema_data) ==
    LET schema_type == GetOr(schema_data, "@type", JStr("")) IN
    ContextErrors(schema_data) \o TypeSpecificErrors(schema_data, schema_type)

\* lines 228-234: [errors, warnings] of the URL check
UrlCheck(data) ==
    IF HasKey(data, "url") /\ GetKey(data, "url").k = "str"
    THEN LET url == GetKey(data, "url").s IN
         IF ~validate_url_format(url)
         THEN << << "Invalid URL format: " \o url >>, <<>> >>
         ELSE IF ~StartsWith(url, "https://")
         THEN << <<>>, << "URL should use https:// (got " \o url \o ")" >> >>
         ELSE << <<>>, <<>> >>
    ELSE << <<>>, <<>> >>

\* lines 214-236: the checks on the decoded data.  calls lists the
\* validators the call reached, type_check is the local of that name;
\* exc # "" when the call ends by an exception.
CheckData(data, syntax_errors) ==
    LET type_check == validate_schema_type(data) IN
    IF type_check.exc # ""
    THEN [exc |-> type_check.exc, valid |-> FALSE, errors |-> <<>>, warnings |-> <<>>,
          calls |-> <<"validate_json_syntax", "validate_schema_type">>,
          type_check |-> type_check]
    ELSE
    LET type_errors == IF type_check.valid THEN <<>> ELSE <<type_check.message>>
        prop_errors == validate_required_properties(data)
        url_check   == UrlCheck(data)
        errors      == syntax_errors \o type_errors \o prop_errors \o url_check[1]
    IN  [exc |-> "", valid |-> Len(errors) = 0, errors |-> errors,
         warnings |-> url_check[2],
         calls |-> <<"validate_json_syntax", "validate_schema_type",
                     "validate_required_properties">>
                   \o (IF HasKey(data, "url") /\ GetKey(data, "url").k = "str"
                       THEN <<"validate_url_format">> ELSE <<>>),
         type_check |-> type_check]

\* validate_structured_data without the early return of lines 210-212: the
\* checks run on an empty object
validate_structured_data_NoEarlyReturn(json_ld_string) ==
    LET Checked(syntax_check) ==
            IF ~syntax_check.valid
            THEN CheckData(JObj(<<>>), <<syntax_check.message>>)
            ELSE CheckData(syntax_check.data, <<>>)
    IN  CHOOSE r \in { Checked(sc) : sc \in {validate_json_syntax(json_ld_string)} } : TRUE

\* lines 202-236; syntax_check is bound to the value of the call of line 209
validate_structured_data(json_ld_string) ==
    LET Checked(syntax_check) ==
            IF ~syntax_check.valid
            THEN [exc |-> "", valid |-> FALSE, errors |-> <<syntax_check.message>>,
                  warnings |-> <<>>, calls |-> <<"validate_json_syntax">>,
                  type_check |-> NotChecked]
            ELSE CheckData(syntax_check.data, <<>>)
    IN  CHOOSE r \in { Checked(sc) : sc \in {validate_json_syntax(json_ld_string)} } : TRUE

(***************************************************************************)
(* validate-structured-data.py: main                                       *)
(*                                                                         *)
(* A page body is the list of the script.string values of its              *)
(* <script type="application/ld+json"> elements, in document order; ""     *)
(* is an element without text.                                             *)
(***************************************************************************)
MaxPages == 2

SDCandidateFiles == {"index.html", "about.html", "500.html"}

OrgBlock(url) ==
    "{\"@context\":\"https://schema.org\",\"@type\":\"Organization\",\"name\":\"C\",\"url\":\""
        \o url \o "\"}"

SDPageBodies ==
    { <<>>,
      Undecodable,
      << OrgBlock("https://a.io") >>,
      << OrgBlock("http://a.io"), "" >>,
      << "{\"@type\":\"Foo\"}", OrgBlock("nope") >>,
      << "{", OrgBlock("https://a.io") >>,
      << "{\"@type\": \"Person\",}", "{'@type':'Person'}" >>,
      << "", " " >>,
      << "[1,]", "{\"a\":1} x" >>,
      << "[]", OrgBlock("https://a.io") >>,
      << "\"Organization\"", "5" >>,
      << "{\"@type\":[1]}", "{\"@type\":\"Person\"}" >>,
      << "{\"@type\":[\"Organization\",\"Person\"]}", "{\"@type\":[\"Organization\",\"Foo\"]}" >>,
      << "{\"@type\":[]}", "{\"@type\":[\"Foo\",\"Bar\"]}" >>,
      << "{}", "{\"@type\":null}" >>,
      << "{\"@type\":5}", "{\"@type\":{\"a\":1}}" >>,
      << "{\"@type\":true}", "{\"@type\":[\"Person\",null]}" >> }

SDFileTrees ==
    { t \in SUBSET SDCandidateFiles : Cardinality(t) <= MaxPages }

InitSD ==
    /\ \E t \in SDFileTrees :
          /\ fs \in [t -> SDPageBodies]
          /\ html_files \in Orders(t)
          /\ pc \in (IF t = {} THEN {"start", "no_build_dir"} ELSE {"start"})
    /\ idx = 1
    /\ exit_code = -1
    /\ exc = ""
    /\ sidx = 1
    /\ block = ""
    /\ result = NoResult
    /\ all_errors = <<>>
    /\ all_warnings = <<>>
    /\ pages_with_schemas = 0
    /\ total_schemas = 0
    /\ public_files = {}
    /\ all_pages = {}
    /\ all_broken_links = <<>>
    /\ run = 1
    /\ prev_report = <<>>
    /\ prev_exit = -1
    /\ script = "validate-structured-data"
    /\ files = <<>>
    /\ all_issues = <<>>
    /\ report = <<>>

\* f"{file_path.relative_to(build_dir)} (Script {i+1}): {text}"
ScriptLine(rel, i, text) == rel \o " (Script " \o IntStr(i) \o "): " \o text

RECURSIVE ScriptLines(_, _, _)
ScriptLines(rel, i, texts) ==
    IF Len(texts) = 0 THEN <<>>
    ELSE << ScriptLine(rel, i, Head(texts)) >> \o ScriptLines(rel, i, Tail(texts))

\* file_path.name
NameOf(rel) ==
    LET parts == SplitOn(rel, "/") IN parts[Len(parts)]

\* lines 241-244
SDNoBuildDir ==
    /\ pc = "no_build_dir"
    /\ pc' = "done"
    /\ exit_code' = 1
    /\ UNCHANGED <<html_files, fs, idx, exc, link_vars, scan_vars, sd_vars>>

\* lines 246-249
SDNoHtmlFiles ==
    /\ pc = "start"
    /\ Len(html_files) = 0
    /\ pc' = "done"
    /\ exit_code' = 1
    /\ UNCHANGED <<html_files, fs, idx, exc, link_vars, scan_vars, sd_vars>>

\* lines 251-257
SDStart ==
    /\ pc = "start"
    /\ Len(html_files) > 0
    /\ pc' = "page"
    /\ UNCHANGED <<html_files, fs, idx, exit_code, exc, link_vars, scan_vars, sd_vars>>

\* lines 260-262: the generated error page is skipped unread
SkipErrorPage ==
    /\ pc = "page"
    /\ idx <= Len(html_files)
    /\ NameOf(html_files[idx]) = "500.html"
    /\ idx' = idx + 1
    /\ UNCHANGED <<pc, html_files, fs, exit_code, exc, link_vars, scan_vars, sd_vars>>

\* lines 264-265: f.read() raises UnicodeDecodeError, nothing catches it
OpenPageRaises ==
    /\ pc = "page"
    /\ idx <= Len(html_files)
    /\ NameOf(html_files[idx]) # "500.html"
    /\ fs[html_files[idx]] = Undecodable
    /\ pc' = "crashed"
    /\ exc' = "UnicodeDecodeError"
    /\ exit_code' = 1
    /\ UNCHANGED <<html_files, fs, idx, link_vars, scan_vars, sd_vars>>

\* lines 264-272: a page without JSON-LD script
PageWithoutScripts ==
    /\ pc = "page"
    /\ idx <= Len(html_files)
    /\ NameOf(html_files[idx]) # "500.html"
    /\ fs[html_files[idx]] = <<>>
    /\ all_warnings' = Append(all_warnings, html_files[idx] \o ": No JSON-LD script found")
    /\ idx' = idx + 1
    /\ UNCHANGED <<pc, html_files, fs, exit_code, exc, link_vars, scan_vars, sidx, block, result,
                   all_errors, pages_with_schemas, total_schemas>>

\* lines 264-275: a page with JSON-LD scripts
OpenPage ==
    /\ pc = "page"
    /\ idx <= Len(html_files)
    /\ NameOf(html_files[idx]) # "500.html"
    /\ fs[html_files[idx]] \notin {<<>>, Undecodable}
    /\ pages_with_schemas' = pages_with_schemas + 1
    /\ sidx' = 1
    /\ pc' = "scripts"
    /\ UNCHANGED <<html_files, fs, idx, exit_code, exc, link_vars, scan_vars, block, result,
                   all_errors, all_warnings, total_schemas>>

\* line 276-279: a script element without text
EmptyScript ==
    /\ pc = "scripts"
    /\ sidx <= Len(fs[html_files[idx]])
    /\ fs[html_files[idx]][sidx] = ""
    /\ total_schemas' = total_schemas + 1
    /\ all_warnings' = Append(all_warnings, ScriptLine(html_files[idx], sidx, "Is empty"))
    /\ sidx' = sidx + 1
    /\ UNCHANGED <<pc, html_files, fs, idx, exit_code, exc, link_vars, scan_vars, block, result,
                   all_errors, pages_with_schemas>>

\* lines 276-287: one block is validated and its findings are collected
ValidateScript ==
    /\ pc = "scripts"
    /\ sidx <= Len(fs[html_files[idx]])
    /\ fs[html_files[idx]][sidx] # ""
    /\ \E r \in {validate_structured_data(fs[html_files[idx]][sidx])} :
          /\ r.exc = ""
          /\ result' = r
          /\ all_errors' = all_errors \o
                (IF ~r.valid THEN ScriptLines(html_files[idx], sidx, r.errors) ELSE <<>>)
          /\ all_warnings' = all_warnings \o ScriptLines(html_files[idx], sidx, r.warnings)
    /\ block' = fs[html_files[idx]][sidx]
    /\ total_schemas' = total_schemas + 1
    /\ sidx' = sidx + 1
    /\ UNCHANGED <<pc, html_files, fs, idx, exit_code, exc, link_vars, scan_vars, pages_with_schemas>>

\* lines 276-281: validate_structured_data raises, nothing catches it
ValidateScriptRaises ==
    /\ pc = "scripts"
    /\ sidx <= Len(fs[html_files[idx]])
    /\ fs[html_files[idx]][sidx] # ""
    /\ \E r \in {validate_structured_data(fs[html_files[idx]][sidx])} :
          /\ r.exc # ""
          /\ result' = r
          /\ exc' = r.exc
    /\ block' = fs[html_files[idx]][sidx]
    /\ total_schemas' = total_schemas + 1
    /\ pc' = "crashed"
    /\ exit_code' = 1
    /\ UNCHANGED <<html_files, fs, idx, link_vars, scan_vars, sidx, all_errors, all_warnings,
                   pages_with_schemas>>

\* line 275: the scripts of the page are exhausted
NextPage ==
    /\ pc = "scripts"
    /\ sidx > Len(fs[html_files[idx]])
    /\ idx' = idx + 1
    /\ pc' = "page"
    /\ UNCHANGED <<html_files, fs, exit_code, exc, link_vars, scan_vars, sd_vars>>

\* lines 289-312: the report and the exit status
ReportSD ==
    /\ pc = "page"
    /\ idx > Len(html_files)
    /\ pc' = "done"
    /\ exit_code' = IF Len(all_errors) > 0 THEN 1 ELSE 0
    /\ UNCHANGED <<html_files, fs, idx, exc, link_vars, scan_vars, sd_vars>>

NextSD ==
    \/ SDNoBuildDir
    \/ SDNoHtmlFiles
    \/ SDStart
    \/ SkipErrorPage
    \/ OpenPageRaises
    \/ PageWithoutScripts
    \/ OpenPage
    \/ EmptyScript
    \/ ValidateScript
    \/ ValidateScriptRaises
    \/ NextPage
    \/ ReportSD

SpecSD == InitSD /\ [][NextSD]_vars

(***************************************************************************)
(* check-compatible.py: text matching                                      *)
(*                                                                         *)
(* Positions are 1-based: a match that starts at m.start() in Python       *)
(* starts at m.start() + 1 here.  re.IGNORECASE is matching on the         *)
(* lower-cased text.                                                       *)
(***************************************************************************)
CharAt(s, i) == IF i >= 1 /\ i <= Len(s) THEN SubSeq(s, i, i) ELSE ""

Min(a, b) == IF a <= b THEN a ELSE b

Max(a, b) == IF a >= b THEN a ELSE b

UpperLetters == "ABCDEFGHIJKLMNOPQRSTUVWXYZ"
LowerLetters == "abcdefghijklmnopqrstuvwxyz"

LowerChar(c) ==
    LET hits == { x \in 1..Len(UpperLetters) : Char(UpperLetters, x) = c } IN
    IF hits = {} THEN c ELSE Char(LowerLetters, CHOOSE x \in hits : TRUE)

\* s.lower()
RECURSIVE Lower(_)
Lower(s) == IF s = "" THEN "" ELSE LowerChar(Char(s, 1)) \o Lower(DropFirst(s, 1))

\* \w
WordChars == Letters \cup Digits \cup {"_"}

Quotes == {"\"", "'"}

\* content[start:start+n]
Window(content, start, n) == SubSeq(content, start, Min(Len(content), start + n - 1))

\* content[max(0, start-n):start]
Before(content, start, n) == SubSeq(content, Max(1, start - n), start - 1)

\* content[:start].count('\n') + 1
LineNo(content, start) ==
    Cardinality({ i \in 1..(start - 1) : Char(content, i) = "\n" }) + 1

\* p in s
Contains(s, p) == \E i \in 1..Len(s) : StartsAt(s, p, i)

\* the elements of a set of integers in ascending order
RECURSIVE Ascending(_)
Ascending(S) ==
    IF S = {} THEN <<>>
    ELSE LET m == CHOOSE x \in S : \A y \in S : x <= y IN <<m>> \o Ascending(S \ {m})

\* sep.join(parts)
RECURSIVE Join(_, _)
Join(parts, sep) ==
    IF Len(parts) = 0 THEN ""
    ELSE IF Len(parts) = 1 THEN parts[1]
    ELSE parts[1] \o sep \o Join(Tail(parts), sep)

\* role=["']name["'] matches the lower-cased text lc at i
RoleAt(lc, i, name) ==
    /\ StartsAt(lc, "role=", i)
    /\ CharAt(lc, i + 5) \in Quotes
    /\ StartsAt(lc, name, i + 6)
    /\ CharAt(lc, i + 6 + Len(name)) \in Quotes

\* re.search(role=["'](n1|n2|..)["'], text, re.IGNORECASE) for lower-cased lc
HasRole(lc, names) ==
    \E i \in 1..Len(lc) : \E x \in 1..Len(names) : RoleAt(lc, i, names[x])

CompatibleIssue(file_path, line_number, criterion, message) ==
    [file_path |-> file_path, line_number |-> line_number, criterion |-> criterion,
     level |-> "A", message |-> message]

(***************************************************************************)
(* check-compatible.py: the detectors                                      *)
(***************************************************************************)
\* lines 37-43, in dict order
ARIA_ATTRIBUTE_ROLE_REQUIREMENTS ==
    << <<"aria-expanded", <<"button", "link", "menuitem", "tab", "combobox", "gridcell", "treeitem">> >>,
       <<"aria-haspopup", <<"button", "link", "menuitem", "tab", "combobox", "gridcell", "treeitem">> >>,
       <<"aria-pressed",  <<"button">> >>,
       <<"aria-checked",  <<"checkbox", "menuitemcheckbox", "menuitemradio", "option", "radio",
                            "switch", "treeitem">> >>,
       <<"aria-selected", <<"gridcell", "option", "row", "tab", "treeitem">> >> >>

\* lines 46-58, in dict order
ARIA_ROLE_PARENT_REQUIREMENTS ==
    << <<"menuitem",         <<"menu", "menubar", "group">> >>,
       <<"menuitemcheckbox", <<"menu", "menubar", "group">> >>,
       <<"menuitemradio",    <<"menu", "menubar", "group">> >>,
       <<"option",           <<"listbox", "group">> >>,
       <<"tab",              <<"tablist">> >>,
       <<"treeitem",         <<"tree", "group">> >>,
       <<"listitem",         <<"list", "group">> >>,
       <<"row",              <<"table", "grid", "treegrid", "rowgroup">> >>,
       <<"gridcell",         <<"row">> >>,
       <<"columnheader",     <<"row">> >>,
       <<"rowheader",        <<"row">> >> >>

\* line 226: re.search(r'role=["\']([\w-]+)["\']', context, re.IGNORECASE):
\* the lower-cased role name of the leftmost match, "" without a match
FoundRole(lc) ==
    LET ends(i) == SkipWhile(lc, WordChars \cup {"-"}, i + 6)
        hits == { i \in 1..Len(lc) :
                    /\ StartsAt(lc, "role=", i)
                    /\ CharAt(lc, i + 5) \in Quotes
                    /\ ends(i) > i + 6
                    /\ CharAt(lc, ends(i)) \in Quotes }
    IN  IF hits = {} THEN ""
        ELSE LET i == CHOOSE x \in hits : \A y \in hits : x <= y
             IN  SubSeq(lc, i + 6, ends(i) - 1)

\* line 230: re.search(r'<(button|a|link)(?:\s|$|\n)', context, IGNORECASE | DOTALL)
ElementMatch(lc) ==
    \E i \in 1..Len(lc) : \E name \in {"button", "a", "link"} :
        /\ StartsAt(lc, "<" \o name, i)
        /\ \/ i + Len(name) = Len(lc)
           \/ CharAt(lc, i + 1 + Len(name)) \in Whitespace

\* lines 216-258 for one attribute: the issues of its matches, by position
RECURSIVE MismatchIssuesAt(_, _, _, _, _)
MismatchIssuesAt(file_path, content, aria_attr, required_roles, starts) ==
    IF Len(starts) = 0 THEN <<>>
    ELSE
    LET start      == Head(starts)
        context    == Lower(SubSeq(content, Max(1, start - 500),
                                   Min(Len(content), start + 199)))
        found_role == FoundRole(context)
        has_valid_role == found_role # "" /\ found_role \in SeqRange(required_roles)
        role_info  == IF found_role # "" THEN " (found role=\"" \o found_role \o "\")" ELSE ""
    IN  (IF ~has_valid_role /\ ~ElementMatch(context)
         THEN << CompatibleIssue(file_path, LineNo(content, start), "SC 4.1.2",
                    "Attribute \"" \o aria_attr
                    \o "\" requires element to have one of these roles: "
                    \o Join(required_roles, ", ") \o role_info) >>
         ELSE <<>>)
        \o MismatchIssuesAt(file_path, content, aria_attr, required_roles, Tail(starts))

\* lines 214-258: the attributes in dict order from the n-th on
RECURSIVE MismatchIssuesFrom(_, _, _)
MismatchIssuesFrom(file_path, content, n) ==
    IF n > Len(ARIA_ATTRIBUTE_ROLE_REQUIREMENTS) THEN <<>>
    ELSE LET aria_attr == ARIA_ATTRIBUTE_ROLE_REQUIREMENTS[n][1]
             lc        == Lower(content)
             starts    == Ascending({ i \in 1..Len(lc) : StartsAt(lc, aria_attr \o "=", i) })
         IN  MismatchIssuesAt(file_path, content, aria_attr,
                              ARIA_ATTRIBUTE_ROLE_REQUIREMENTS[n][2], starts)
             \o MismatchIssuesFrom(file_path, content, n + 1)

\* lines 209-260
detect_aria_attribute_role_mismatch(file_path, content) ==
    MismatchIssuesFrom(file_path, content, 1)

\* line 289: re.search(r'<(ul|ol)\s', context, re.IGNORECASE)
HasListTag(lc) ==
    \E i \in 1..Len(lc) :
        /\ StartsAt(lc, "<ul", i) \/ StartsAt(lc, "<ol", i)
        /\ CharAt(lc, i + 3) \in Whitespace

\* lines 271-301 for one child role: the issues of its matches, by position
RECURSIVE HierarchyIssuesAt(_, _, _, _, _)
HierarchyIssuesAt(file_path, content, child_role, required_parents, starts) ==
    IF Len(starts) = 0 THEN <<>>
    ELSE
    LET start   == Head(starts)
        context == Lower(Before(content, start, 1000))
        has_valid_parent ==
            \/ HasRole(context, required_parents)
            \/ child_role = "listitem" /\ HasListTag(context)
    IN  (IF ~has_valid_parent
         THEN << CompatibleIssue(file_path, LineNo(content, start), "SC 4.1.2",
                    "Element with role=\"" \o child_role
                    \o "\" must be contained by element with role: "
                    \o Join(required_parents, " or ")) >>
         ELSE <<>>)
        \o HierarchyIssuesAt(file_path, content, child_role, required_parents, Tail(starts))

\* lines 270-301: the child roles in dict order from the n-th on
RECURSIVE HierarchyIssuesFrom(_, _, _)
HierarchyIssuesFrom(file_path, content, n) ==
    IF n > Len(ARIA_ROLE_PARENT_REQUIREMENTS) THEN <<>>
    ELSE LET child_role == ARIA_ROLE_PARENT_REQUIREMENTS[n][1]
             lc         == Lower(content)
             starts     == Ascending({ i \in 1..Len(lc) : RoleAt(lc, i, child_role) })
         IN  HierarchyIssuesAt(file_path, content, child_role,
                               ARIA_ROLE_PARENT_REQUIREMENTS[n][2], starts)
             \o HierarchyIssuesFrom(file_path, content, n + 1)

\* lines 263-303
detect_aria_role_hierarchy_issues(file_path, content) ==
    HierarchyIssuesFrom(file_path, content, 1)

\* no match
NoMatch == [start |-> 0, end |-> 0, group |-> ""]

\* line 88, first alternative at i:
\* <(button|a|input|select|textarea)(\s|>|/)[^>]*>
TagMatchAt(content, lc, i) ==
    LET names == { name \in {"button", "a", "input", "select", "textarea"} :
                     /\ StartsAt(lc, "<" \o name, i)
                     /\ CharAt(lc, i + 1 + Len(name)) \in Whitespace \cup {">", "/"}
                     /\ FindFrom(lc, {">"}, i + 2 + Len(name)) # 0 }
    IN  IF names = {} THEN NoMatch
        ELSE LET name == CHOOSE n \in names : TRUE IN
             [start |-> i, end |-> FindFrom(lc, {">"}, i + 2 + Len(name)),
              group |-> SubSeq(content, i + 1, i + Len(name))]

\* line 88, second alternative at i: role=["'](button|link|tab|menuitem|option)["']
RoleMatchAt(lc, i) ==
    LET names == { name \in {"button", "link", "tab", "menuitem", "option"} :
                     RoleAt(lc, i, name) }
    IN  IF names = {} THEN NoMatch
        ELSE [start |-> i, end |-> i + 6 + Len(CHOOSE n \in names : TRUE), group |-> ""]

InteractiveAt(content, lc, i) ==
    IF TagMatchAt(content, lc, i).start # 0 THEN TagMatchAt(content, lc, i)
    ELSE RoleMatchAt(lc, i)

\* interactive_pattern.finditer(content) from position from on
RECURSIVE InteractiveMatches(_, _, _)
InteractiveMatches(content, lc, from) ==
    LET hits == { i \in from..Len(content) : InteractiveAt(content, lc, i).start # 0 } IN
    IF hits = {} THEN <<>>
    ELSE LET i == CHOOSE x \in hits : \A y \in hits : x <= y
             m == InteractiveAt(content, lc, i)
         IN  <<m>> \o InteractiveMatches(content, lc, m.end + 1)

\* line 101: the snippet holds a name attribute, text content or a JSX child
HasNameOrText(snippet) ==
    LET ls == Lower(snippet) IN
    \/ Contains(ls, "aria-label=")
    \/ Contains(ls, "aria-labelledby=")
    \/ Contains(ls, "arialabelledby=")
    \/ \E i \in 1..Len(snippet) :
          /\ Char(snippet, i) = ">"
          /\ CharAt(snippet, i + 1) \notin {"<", ""}
          /\ FindFrom(snippet, {"<"}, i + 2) # 0
    \/ \E i \in 1..Len(snippet) :
          /\ Char(snippet, i) = ">"
          /\ CharAt(snippet, SkipWs(snippet, i + 1)) = "{"

\* lines 112, 120: re.search(r'\bid\s*=\s*["\']([^"\']+)["\']', text): the id
\* of the leftmost match, "" without a match
IdOf(text) ==
    LET eq(i)    == SkipWs(text, i + 2)
        quote(i) == SkipWs(text, eq(i) + 1)
        close(i) == FindFrom(text, Quotes, quote(i) + 1)
        hits == { i \in 1..Len(text) :
                    /\ StartsAt(text, "id", i)
                    /\ CharAt(text, i - 1) \notin WordChars
                    /\ CharAt(text, eq(i)) = "="
                    /\ CharAt(text, quote(i)) \in Quotes
                    /\ close(i) > quote(i) + 1 }
    IN  IF hits = {} THEN ""
        ELSE LET i == CHOOSE x \in hits : \A y \in hits : x <= y
             IN  SubSeq(text, quote(i) + 1, close(i) - 1)

\* line 126: re.search(rf'<label[^>]*for\s*=\s*["\']{id}["\']', content, IGNORECASE)
HasLabelFor(lc, id) ==
    \E i \in 1..Len(lc) : \E j \in (i + 6)..Len(lc) :
        LET eq    == SkipWs(lc, j + 3)
            quote == SkipWs(lc, eq + 1)
        IN  /\ StartsAt(lc, "<label", i)
            /\ \A x \in (i + 6)..(j - 1) : Char(lc, x) # ">"
            /\ StartsAt(lc, "for", j)
            /\ CharAt(lc, eq) = "="
            /\ CharAt(lc, quote) \in Quotes
            /\ StartsAt(lc, id, quote + 1)
            /\ CharAt(lc, quote + 1 + Len(id)) \in Quotes

\* lines 109-137: the input at start has a label
InputIsLabeled(content, start) ==
    LET snippet  == Window(content, start, 200)
        input_id == IF IdOf(snippet) # "" THEN IdOf(snippet)
                    ELSE IdOf(Window(content, start, 800))
    IN  \/ input_id # "" /\ HasLabelFor(Lower(content), Lower(input_id))
        \/ /\ Contains(Before(content, start, 500), "<label")
           /\ Contains(Window(content, start, 500), "</label>")

\* lines 94-147: the issues of the interactive matches
RECURSIVE NameIssues(_, _, _)
NameIssues(file_path, content, matches) ==
    IF Len(matches) = 0 THEN <<>>
    ELSE
    LET m       == Head(matches)
        snippet == Window(content, m.start, 200)
        skip    ==
            \/ HasNameOrText(snippet)
            \/ /\ m.group = "a"
               /\ ~\E i \in 1..Len(snippet) :
                      StartsAt(snippet, "href=", i) /\ CharAt(snippet, i + 5) \in Quotes
            \/ m.group = "input" /\ InputIsLabeled(content, m.start)
    IN  (IF skip THEN <<>>
         ELSE << CompatibleIssue(file_path, LineNo(content, m.start), "SC 4.1.2",
                    "Interactive element may be missing accessible name (aria-label/aria-labelledby or visible text). Ensure Name, Role, Value is exposed to assistive technologies.") >>)
        \o NameIssues(file_path, content, Tail(matches))

\* lines 150-170: role_pattern.finditer(content) from position from on, and
\* the issues of the dialog roles without a name
RECURSIVE DialogIssues(_, _, _, _)
DialogIssues(file_path, content, lc, from) ==
    LET close(i) == FindFrom(lc, Quotes, i + 6)
        hits == { i \in from..Len(lc) :
                    /\ StartsAt(lc, "role=", i)
                    /\ CharAt(lc, i + 5) \in Quotes
                    /\ close(i) > i + 6 }
    IN  IF hits = {} THEN <<>>
        ELSE
        LET start   == CHOOSE x \in hits : \A y \in hits : x <= y
            role    == SubSeq(lc, start + 6, close(start) - 1)
            snippet == Window(content, start, 200)
        IN  (IF /\ role \in {"dialog", "alertdialog"}
                /\ ~Contains(snippet, "aria-label=")
                /\ ~Contains(snippet, "aria-labelledby=")
             THEN << CompatibleIssue(file_path, LineNo(content, start), "SC 4.1.2",
                        "Element with role=\"" \o role
                        \o "\" should have an accessible name (aria-label or aria-labelledby).") >>
             ELSE <<>>)
            \o DialogIssues(file_path, content, lc, close(start) + 1)

\* lines 81-172
detect_missing_name_role_value(file_path, content) ==
    IF StartsWith(file_path, "components/common/") THEN <<>>
    ELSE NameIssues(file_path, content, InteractiveMatches(content, Lower(content), 1))
         \o DialogIssues(file_path, content, Lower(content), 1)

UpperCase ==
    {"A","B","C","D","E","F","G","H","I","J","K","L","M","N","O","P","Q","R",
     "S","T","U","V","W","X","Y","Z"}

\* line 181: index of the last character of a match of a state change
\* pattern that starts at i, 0 without a match: set[A-Z]\w+\( , setState\( ,
\* dispatch\( , fetch\(
StateChangeEnd(content, i) ==
    LET paren == SkipWhile(content, WordChars, i + 4) IN
    IF /\ StartsAt(content, "set", i)
       /\ CharAt(content, i + 3) \in UpperCase
       /\ paren > i + 4
       /\ CharAt(content, paren) = "("
    THEN paren
    ELSE IF StartsAt(content, "setState(", i) THEN i + 8
    ELSE IF StartsAt(content, "dispatch(", i) THEN i + 8
    ELSE IF StartsAt(content, "fetch(", i) THEN i + 5
    ELSE 0

\* line 182
keywords == <<"error", "success", "message", "status", "alert", "toast">>

\* lines 184-194: a status keyword between the two-character sequences \b
\* stands within 200 characters of a state change.  A match that finditer
\* skips lies inside another match, whose window holds its window.
found_status_near_state(content) ==
    \E i \in 1..Len(content) :
        /\ StateChangeEnd(content, i) # 0
        /\ LET window == Lower(SubSeq(content, Max(1, i - 200),
                                      Min(Len(content), StateChangeEnd(content, i) + 200)))
           IN  \E k \in 1..Len(keywords) : Contains(window, "\\b" \o keywords[k] \o "\\b")

\* lines 175-206
detect_missing_status_messages(file_path, content) ==
    IF /\ found_status_near_state(content)
       /\ ~Contains(Lower(content), "aria-live=")
       /\ ~HasRole(Lower(content), <<"status", "alert">>)
    THEN << CompatibleIssue(file_path, 1, "SC 4.1.3",
               "File contains dynamic state updates and message-like keywords near those updates but no obvious status message region (aria-live or role=\"status\"/\"alert\"). Ensure status messages are programmatically exposed.") >>
    ELSE <<>>

LowerCase ==
    {"a","b","c","d","e","f","g","h","i","j","k","l","m","n","o","p","q","r",
     "s","t","u","v","w","x","y","z"}

\* lines 61-66: f.readlines(), [] for a file that cannot be read
read_file_lines(body) == IF body = Undecodable THEN <<>> ELSE body

\* lines 306-321, lines being read_file_lines(file_path)
validate_file(file_path, lines) ==
    LET content == Join(lines, "") IN
    IF Len(lines) = 0 THEN <<>>
    ELSE IF ~\E i \in 1..Len(content) :
                Char(content, i) = "<" /\ CharAt(content, i + 1) \in LowerCase
    THEN <<>>
    ELSE detect_missing_name_role_value(file_path, content)
         \o detect_missing_status_messages(file_path, content)
         \o detect_aria_attribute_role_mismatch(file_path, content)
         \o detect_aria_role_hierarchy_issues(file_path, content)

(***************************************************************************)
(* check-compatible.py: main                                               *)
(*                                                                         *)
(* A source file is the list of its lines as f.readlines() gives them.     *)
(***************************************************************************)
\* source files the model draws from, in the order of sorted()
SortedSources ==
    << "components/Tabs.tsx", "components/common/Button.tsx", "pages/index.tsx" >>

SourceBodies ==
    { <<>>,
      Undecodable,
      << "type P = Array<Item>;\n" >>,
      << "<div role=\"tab\">a</div>\n", "<div role=\"menuitem\">b</div>\n" >>,
      << "<ul role=\"menu\">\n", "<li role=\"menuitem\">b</li>\n", "</ul>\n" >>,
      << "<button aria-pressed=\"true\"></button>\n", "<input type=\"text\" />\n" >>,
      << "<div aria-expanded=\"false\">c</div>\n", "<div role=\"dialog\">d</div>\n" >>,
      << "<label for=\"q\">Q</label>\n", "<input id=\"q\" />\n" >>,
      << "const r = /\\berror\\b/;\n", "setState(r);\n", "return <p>x</p>;\n" >>,
      << "<a href=\"/x\"><img /></a>\n", "<a name=\"y\"></a>\n" >> }

SourceTrees ==
    { t \in SUBSET SeqRange(SortedSources) : Cardinality(t) <= MaxFiles }

\* lines 69-78: sorted(set(files))
get_files(tree) == SelectSeq(SortedSources, LAMBDA f : f \in tree)

InitCompat ==
    /\ \E t \in SourceTrees :
          /\ fs \in [t -> SourceBodies]
          /\ files = get_files(t)
    /\ script = "check-compatible"
    /\ pc = "scan"
    /\ idx = 1
    /\ all_issues = <<>>
    /\ report = <<>>
    /\ exit_code = -1
    /\ exc = ""
    /\ html_files = <<>>
    /\ public_files = {}
    /\ all_pages = {}
    /\ all_broken_links = <<>>
    /\ run = 1
    /\ prev_report = <<>>
    /\ prev_exit = -1
    /\ sidx = 1
    /\ block = ""
    /\ result = NoResult
    /\ all_errors = <<>>
    /\ all_warnings = <<>>
    /\ pages_with_schemas = 0
    /\ total_schemas = 0

\* lines 356-357: one iteration of the loop of main
CompatValidateFile ==
    /\ script = "check-compatible"
    /\ pc = "scan"
    /\ idx <= Len(files)
    /\ \E issues \in { validate_file(files[idx], read_file_lines(fs[files[idx]])) } :
          all_issues' = all_issues \o issues
    /\ idx' = idx + 1
    /\ UNCHANGED <<pc, html_files, fs, exit_code, exc, link_vars, sd_vars, script, files,
                   report>>

\* the criteria of the issues in the order of their first issue
RECURSIVE CriteriaOf(_, _)
CriteriaOf(issues, seen) ==
    IF Len(issues) = 0 THEN <<>>
    ELSE IF Head(issues).criterion \in seen THEN CriteriaOf(Tail(issues), seen)
    ELSE << Head(issues).criterion >>
         \o CriteriaOf(Tail(issues), seen \cup {Head(issues).criterion})

\* lines 332-342: the groups of by_crit in dict order, each with its items
\* in list order
print_report(issues) ==
    LET crits == CriteriaOf(issues, {}) IN
    [ x \in 1..Len(crits) |->
        [criterion |-> crits[x],
         items |-> SelectSeq(issues, LAMBDA i : i.criterion = crits[x])] ]

\* lines 359-360: print_report and sys.exit
CompatReport ==
    /\ script = "check-compatible"
    /\ pc = "scan"
    /\ idx > Len(files)
    /\ report' = print_report(all_issues)
    /\ exit_code' = IF \E i \in 1..Len(all_issues) : all_issues[i].level = "A" THEN 1 ELSE 0
    /\ pc' = "done"
    /\ UNCHANGED <<html_files, fs, idx, exc, link_vars, sd_vars, script, files, all_issues>>

NextCompat ==
    \/ CompatValidateFile
    \/ CompatReport

SpecCompat == InitCompat /\ [][NextCompat]_vars

(***************************************************************************)
(* The graded checkers: check-semantic-structure.py, check-seizures.py,    *)
(* check-input-modalities.py, check-predictable.py                         *)
(*                                                                         *)
(* Each script walks its files, collects what its checks find and ends     *)
(* with an exit status computed from the collected findings.  The text     *)
(* matching of the checks is not modelled: a source file is given by       *)
(* whether it can be read and by the findings the checks of the script     *)
(* return for it, each finding one of those the script constructs.         *)
(***************************************************************************)
GradedScripts ==
    { "check-semantic-structure", "check-seizures", "check-input-modalities",
      "check-predictable" }

\* a finding as a check constructs it; a field the script's issue type
\* does not have is ""
Finding(rule, severity, sc, level) ==
    [rule |-> rule, severity |-> severity, sc |-> sc, level |-> level]

\* check-semantic-structure.py: the SemanticViolation objects of the checks
SemanticViolations ==
    { Finding("Heading level skipped after PageHeader", "error", "1.3.1", ""),
      Finding("Heading level skipped", "error", "1.3.1", ""),
      Finding("Page without headings", "warning", "1.3.1", ""),
      Finding("First heading is not h1", "error", "1.3.1", ""),
      Finding("Multiple h1 elements", "error", "1.3.1", ""),
      Finding("Missing <main> landmark", "error", "1.3.1", ""),
      Finding("Missing <nav> landmark", "error", "1.3.1", ""),
      Finding("Missing <footer> landmark", "error", "1.3.1", ""),
      Finding("Banner content not in landmark", "error", "1.3.1", ""),
      Finding("Navigation without list markup", "warning", "1.3.1", ""),
      Finding("Input without label", "error", "1.3.1", ""),
      Finding("Input without accessible name", "warning", "1.3.1", ""),
      Finding("Table without headers", "error", "1.3.1", ""),
      Finding("Table header without scope", "warning", "1.3.1", "") }

\* check-seizures.py: the two lists of the violations dict
SeizureViolations ==
    { Finding("three_flashes", "", "2.3.1", ""),
      Finding("reduced_motion", "", "2.3.3", "") }

\* check-input-modalities.py: the InputModalityIssue objects of the checks
\* (check_target_size builds none)
InputModalityIssues ==
    { Finding("check_pointer_gestures", "", "2.5.1", ""),
      Finding("check_pointer_cancellation", "", "2.5.2", ""),
      Finding("check_label_in_name", "", "2.5.3", ""),
      Finding("check_motion_actuation", "", "2.5.4", ""),
      Finding("check_concurrent_input", "", "2.5.6", "") }

\* check-predictable.py: the PredictableIssue objects of the checks
PredictableIssues ==
    { Finding("check_on_focus", "", "3.2.1", "A"),
      Finding("check_on_input", "", "3.2.2", "A"),
      Finding("check_consistent_navigation", "", "3.2.3", "AA"),
      Finding("check_change_on_request", "", "3.2.5", "AAA") }

FindingsOf(s) ==
    CASE s = "check-semantic-structure" -> SemanticViolations
      [] s = "check-seizures" -> SeizureViolations
      [] s = "check-input-modalities" -> InputModalityIssues
      [] s = "check-predictable" -> PredictableIssues

\* a source file of a graded checker: unreadable, or readable with what
\* the checks return for it
GradedBodies(s) ==
    { [readable |-> FALSE, found |-> <<>>], [readable |-> TRUE, found |-> <<>>] }
    \cup { [readable |-> TRUE, found |-> <<k>>] : k \in FindingsOf(s) }

\* check-semantic-structure.py scan_files: components/ then pages/, each in
\* the order rglob yields; the other scripts return sorted(files)
ScanOrders(s, tree) ==
    IF s = "check-semantic-structure"
    THEN { o \in Orders(tree) :
             \A i, j \in 1..Len(o) :
                 (StartsWith(o[i], "pages/") /\ StartsWith(o[j], "components/")) => j < i }
    ELSE { get_files(tree) }

InitGrade ==
    /\ script \in GradedScripts
    /\ \E t \in SourceTrees :
          /\ fs \in [t -> GradedBodies(script)]
          /\ files \in ScanOrders(script, t)
    /\ pc = "scan"
    /\ idx = 1
    /\ all_issues = <<>>
    /\ report = <<>>
    /\ exit_code = -1
    /\ exc = ""
    /\ html_files = <<>>
    /\ public_files = {}
    /\ all_pages = {}
    /\ all_broken_links = <<>>
    /\ run = 1
    /\ prev_report = <<>>
    /\ prev_exit = -1
    /\ sidx = 1
    /\ block = ""
    /\ result = NoResult
    /\ all_errors = <<>>
    /\ all_warnings = <<>>
    /\ pages_with_schemas = 0
    /\ total_schemas = 0

\* the findings of one file as the script's loop collects them
IssuesOf(file_path, body) ==
    [ x \in 1..Len(body.found) |->
        [file_path |-> file_path, rule |-> body.found[x].rule,
         severity |-> body.found[x].severity, sc |-> body.found[x].sc,
         level |-> body.found[x].level] ]

\* one iteration of the file loop on a file that can be read
GradeScanFile ==
    /\ script \in GradedScripts
    /\ pc = "scan"
    /\ idx <= Len(files)
    /\ fs[files[idx]].readable
    /\ all_issues' = all_issues \o IssuesOf(files[idx], fs[files[idx]])
    /\ idx' = idx + 1
    /\ UNCHANGED <<pc, html_files, fs, exit_code, exc, link_vars, sd_vars, script, files,
                   report>>

\* one iteration of the file loop on a file that cannot be read: the
\* exception is caught (or read_file_lines returns []) and nothing is added
GradeSkipFile ==
    /\ script \in GradedScripts
    /\ pc = "scan"
    /\ idx <= Len(files)
    /\ ~fs[files[idx]].readable
    /\ idx' = idx + 1
    /\ UNCHANGED <<pc, html_files, fs, exit_code, exc, link_vars, sd_vars, scan_vars>>

\* check-semantic-structure.py main: errors = [v ... if v.severity == "error"];
\* sys.exit(1) if errors, else sys.exit(0)
semantic_structure_exit(violations) ==
    IF \E x \in 1..Len(violations) : violations[x].severity = "error" THEN 1 ELSE 0

seizures_exit_AnyViolation(violations) ==
    IF Len(violations) > 0 THEN 1 ELSE 0

\* check-seizures.py main: total_errors = len(violations['three_flashes']);
\* sys.exit(1 if total_errors > 0 else 0)
seizures_exit(violations) ==
    IF Len(SelectSeq(violations, LAMBDA v : v.rule = "three_flashes")) > 0 THEN 1 ELSE 0

\* check-input-modalities.py main: level_a_issues = [i ... if i.sc in [...]];
\* return 1 if level_a_issues else 0
input_modalities_exit(issues) ==
    IF \E x \in 1..Len(issues) : issues[x].sc \in {"2.5.1", "2.5.2", "2.5.3", "2.5.4"}
    THEN 1 ELSE 0

\* check-predictable.py main: errors = [issue ... if issue.level in ['A', 'AA']];
\* sys.exit(1 if errors else 0)
predictable_exit(issues) ==
    IF \E x \in 1..Len(issues) : issues[x].level \in {"A", "AA"} THEN 1 ELSE 0

\* the end of main of the running script
GradeReport ==
    /\ script \in GradedScripts
    /\ pc = "scan"
    /\ idx > Len(files)
    /\ exit_code' =
          CASE script = "check-semantic-structure" -> semantic_structure_exit(all_issues)
            [] script = "check-seizures" -> seizures_exit(all_issues)
            [] script = "check-input-modalities" -> input_modalities_exit(all_issues)
            [] script = "check-predictable" -> predictable_exit(all_issues)
    /\ pc' = "done"
    /\ UNCHANGED <<html_files, fs, idx, exc, link_vars, sd_vars, scan_vars>>

NextGrade ==
    \/ GradeScanFile
    \/ GradeSkipFile
    \/ GradeReport

SpecGrade == InitGrade /\ [][NextGrade]_vars

(***************************************************************************)
(* validate-structured-data.py: validate_structured_data on one block      *)
(*                                                                         *)
(* The text of one JSON-LD block is drawn from JsonLdBlocks and the        *)
(* function is applied to it.                                              *)
(***************************************************************************)
\* lines 128-197: the types validate_required_properties has a branch for
TypesWithRequired ==
    { "Organization", "Article", "BlogPosting", "BreadcrumbList", "FAQPage",
      "LocalBusiness", "Person", "JobPosting" }

\* texts of JSON-LD blocks: Article and BlogPosting blocks with and without
\* headline, author and datePublished; FAQPage blocks with mainEntity of
\* several shapes; blocks with URL-valued properties
JsonLdBlocks ==
    LET Ctx == "{\"@context\":\"https://schema.org\",\"@type\":\""
        Dates == { "", "\"2024-01-15\"", "\"2024-01-15T10:00:00Z\"",
                   "\"2024-01-15T10:00:00+02:00\"", "\"January 15, 2024\"",
                   "\"2024-13-01\"", "\"2024-01-15x10:00\"", "5" }
        Article(ty, h, a, d) ==
            Ctx \o ty \o "\""
                \o (IF h THEN ",\"headline\":\"H\"" ELSE "")
                \o (IF a THEN ",\"author\":\"A\"" ELSE "")
                \o (IF d # "" THEN ",\"datePublished\":" \o d ELSE "") \o "}"
        Answer == "{\"@type\":\"Answer\",\"text\":\"t\"}"
        Question(answer) ==
            "{\"@type\":\"Question\",\"name\":\"n\",\"acceptedAnswer\":" \o answer \o "}"
        Q == Question(Answer)
        Entities ==
            { "", Q, "\"x\"", "null", "[]", "[" \o Q \o "]", "[" \o Q \o "," \o Q \o "]",
              "[" \o Q \o "," \o Question("\"yes\"") \o "]",
              "[" \o Q \o "," \o Question("[" \o Answer \o "]") \o "]",
              "[" \o Q \o "," \o Question("{\"@type\":\"Answer\"}") \o "]",
              "[" \o Q \o "," \o Question("{\"text\":\"t\"}") \o "]",
              "[" \o Q \o ",{\"@type\":\"Question\",\"name\":\"n\"}]",
              "[" \o Q \o ",{\"@type\":\"Question\",\"acceptedAnswer\":" \o Answer \o "}]",
              "[" \o Q \o ",{\"name\":\"n\",\"acceptedAnswer\":" \o Answer \o "}]",
              "[" \o Q \o ",\"x\"]" }
        Faq(me) == Ctx \o "FAQPage\"" \o (IF me # "" THEN ",\"mainEntity\":" \o me ELSE "") \o "}"
        Org(rest) == Ctx \o "Organization\",\"name\":\"C\"" \o rest \o "}"
        Urls == { "\"https://a.io\"", "\"http://a.io\"", "\"http://localhost:3000/x\"",
                  "\"nope\"", "\"ftp://a.io\"", "\"http://a.io/p q\"", "5" }
    IN  { Article(ty, h, a, d) : ty \in {"Article", "BlogPosting"}, h \in BOOLEAN,
                                 a \in BOOLEAN, d \in Dates }
        \cup { Faq(me) : me \in Entities }
        \cup { Org(",\"url\":" \o u) : u \in Urls }
        \cup { Org(",\"url\":\"https://a.io\",\"logo\":" \o u) : u \in Urls }
        \cup { "[]", "{\"@type\":[1]}" }
        \cup { "{\"@context\":\"https://schema.org\",\"@type\":" \o ty \o rest \o "}" :
                 ty \in { "\"" \o t \o "\"" : t \in TypesWithRequired }
                        \cup { "[\"" \o t \o "\"]" : t \in TypesWithRequired },
                 rest \in { "", ",\"name\":\"C\",\"url\":\"https://a.io\"" } }

InitBlock ==
    /\ block \in JsonLdBlocks
    /\ script = "validate_structured_data"
    /\ pc = "call"
    /\ result = NoResult
    /\ exc = ""
    /\ fs = << >>
    /\ html_files = <<>>
    /\ idx = 1
    /\ exit_code = -1
    /\ sidx = 1
    /\ all_errors = <<>>
    /\ all_warnings = <<>>
    /\ pages_with_schemas = 0
    /\ total_schemas = 0
    /\ public_files = {}
    /\ all_pages = {}
    /\ all_broken_links = <<>>
    /\ run = 1
    /\ prev_report = <<>>
    /\ prev_exit = -1
    /\ files = <<>>
    /\ all_issues = <<>>
    /\ report = <<>>

\* lines 202-236: the call returns its result
BlockReturns ==
    /\ script = "validate_structured_data"
    /\ pc = "call"
    /\ \E r \in {validate_structured_data(block)} :
          /\ r.exc = ""
          /\ result' = r
    /\ pc' = "returned"
    /\ UNCHANGED <<html_files, fs, idx, exit_code, exc, link_vars, scan_vars, sidx, block,
                   all_errors, all_warnings, pages_with_schemas, total_schemas>>

\* lines 202-236: the call ends by an exception
BlockRaises ==
    /\ script = "validate_structured_data"
    /\ pc = "call"
    /\ \E r \in {validate_structured_data(block)} :
          /\ r.exc # ""
          /\ result' = r
          /\ exc' = r.exc
    /\ pc' = "raised"
    /\ UNCHANGED <<html_files, fs, idx, exit_code, link_vars, scan_vars, sidx, block,
                   all_errors, all_warnings, pages_with_schemas, total_schemas>>

NextBlock ==
    \/ BlockReturns
    \/ BlockRaises

SpecBlock == InitBlock /\ [][NextBlock]_vars

(***************************************************************************)
(* check-input-assistance.py: find_labelled_inputs                         *)
(***************************************************************************)
\* re.search(name=["']([^"']+)["'], tag): group 1 of the leftmost match, ""
\* without a match
AttrValue(tag, name) ==
    LET open(i)  == i + Len(name) + 1
        close(i) == FindFrom(tag, Quotes, open(i) + 1)
        hits == { i \in 1..Len(tag) :
                    /\ StartsAt(tag, name \o "=", i)
                    /\ CharAt(tag, open(i)) \in Quotes
                    /\ close(i) > open(i) + 1 }
    IN  IF hits = {} THEN ""
        ELSE LET i == CHOOSE x \in hits : \A y \in hits : x <= y
             IN  SubSeq(tag, open(i) + 1, close(i) - 1)

\* lines 73, 76-78: the ids of label_pattern.finditer(content) from position
\* from on; lc is content in lower case.  A match is <label, characters
\* other than >, for= with a quoted id (the last one that lets the rest
\* match), characters other than >, >, and the text up to the next </label>.
RECURSIVE labelled_ids(_, _, _)
labelled_ids(content, lc, from) ==
    LET close(j) == FindFrom(content, Quotes, j + 5)
        gt(j)    == FindFrom(content, {">"}, close(j) + 1)
        EndTag(j) == { e \in (gt(j) + 1)..Len(lc) : StartsAt(lc, "</label>", e) }
        Fors(i) == { j \in (i + 6)..Len(lc) :
                       /\ \A x \in (i + 6)..(j - 1) : Char(content, x) # ">"
                       /\ StartsAt(lc, "for=", j)
                       /\ CharAt(content, j + 4) \in Quotes
                       /\ close(j) > j + 5
                       /\ gt(j) > 0
                       /\ EndTag(j) # {} }
        hits == { i \in from..Len(lc) : StartsAt(lc, "<label", i) /\ Fors(i) # {} }
    IN  IF hits = {} THEN {}
        ELSE LET i == CHOOSE x \in hits : \A y \in hits : x <= y
                 j == CHOOSE x \in Fors(i) : \A y \in Fors(i) : y <= x
                 e == CHOOSE x \in EndTag(j) : \A y \in EndTag(j) : x <= y
             IN  { SubSeq(content, j + 5, close(j) - 1) } \cup labelled_ids(content, lc, e + 8)

\* line 72: input_pattern.finditer(content) from position from on: the
\* matches of <(input|select|textarea)[^>]*> as [start, tag]
RECURSIVE input_pattern(_, _, _)
input_pattern(content, lc, from) ==
    LET gt(i) == FindFrom(content, {">"}, i + 1)
        hits == { i \in from..Len(lc) :
                    /\ \E n \in {"<input", "<select", "<textarea"} : StartsAt(lc, n, i)
                    /\ gt(i) > 0 }
    IN  IF hits = {} THEN <<>>
        ELSE LET i == CHOOSE x \in hits : \A y \in hits : x <= y
             IN  << [start |-> i, tag |-> SubSeq(content, i, gt(i))] >>
                 \o input_pattern(content, lc, gt(i) + 1)

\* lines 84-154: the issues of the input matches, in the order of the
\* appends
RECURSIVE InputIssues(_, _, _, _)
InputIssues(file_path, content, ids, matches) ==
    IF Len(matches) = 0 THEN <<>>
    ELSE
    LET tag     == Head(matches).tag
        line_no == LineNo(content, Head(matches).start)
        ltag    == Lower(tag)
        hidden  == \E i \in 1..Len(ltag) :
                       /\ StartsAt(ltag, "type=", i)
                       /\ CharAt(ltag, i + 5) \in Quotes
                       /\ StartsAt(ltag, "hidden", i + 6)
                       /\ CharAt(ltag, i + 12) \in Quotes
        id_match == AttrValue(tag, "id")
        has_label ==
            \/ id_match # "" /\ id_match \in ids
            \/ AttrValue(tag, "aria-label") # ""
            \/ AttrValue(tag, "aria-labelledby") # ""
        type_match == Lower(AttrValue(tag, "type"))
        name == Lower(AttrValue(tag, "name"))
        Issue(level, message) ==
            [file_path |-> file_path, line_number |-> line_no, criterion |-> "SC 3.3.2",
             level |-> level, message |-> message]
    IN  (IF hidden THEN <<>>
         ELSE (IF ~has_label
               THEN << Issue("A", "Form control missing associated label (use <label for=\"id\"> or aria-label/aria-labelledby). Placeholder is not a visible label.") >>
               ELSE <<>>)
           \o (IF Contains(name, "email") /\ type_match # "email"
               THEN << Issue("AA", "Input appears to collect an email address but does not use type=\"email\". Use semantic input types for better assistance and mobile keyboards.") >>
               ELSE <<>>)
           \o (IF (Contains(name, "phone") \/ Contains(name, "tel")) /\ type_match # "tel"
               THEN << Issue("AA", "Input appears to collect a phone number but does not use type=\"tel\". Use type=\"tel\" for better mobile input assistance.") >>
               ELSE <<>>)
           \o (IF AttrValue(tag, "placeholder") # "" /\ ~has_label
               THEN << Issue("A", "Placeholder text used as the only label. Placeholders are not sufficient labels; provide a visible <label>.") >>
               ELSE <<>>))
        \o InputIssues(file_path, content, ids, Tail(matches))

\* lines 66-156
find_labelled_inputs(file_path, lines) ==
    LET content == Join(lines, "")
        lc      == Lower(content)
    IN  InputIssues(file_path, content, labelled_ids(content, lc, 1),
                    input_pattern(content, lc, 1))

(***************************************************************************)
(* check-semantic-structure.py: check_heading_hierarchy                    *)
(***************************************************************************)
\* SemanticViolation(name, file, severity, description, wcag, line_num)
SemanticViolation(name, file, severity, description, line_num) ==
    [name |-> name, file |-> file, severity |-> severity,
     description |-> description, wcag |-> "WCAG 2.1 SC 1.3.1",
     line_num |-> line_num]

\* line 73: the file is a page and neither an API route nor _app/_document
is_page(file_path) ==
    /\ StartsWith(file_path, "pages/")
    /\ ~StartsWith(file_path, "pages/api/")
    /\ ~EndsWith(file_path, "_app.tsx")
    /\ ~EndsWith(file_path, "_document.tsx")

\* line 79: re.search(r'<PageHeader\s', content, re.IGNORECASE); lc is
\* content in lower case
has_page_header(lc) ==
    \E i \in 1..Len(lc) :
        StartsAt(lc, "<pageheader", i) /\ CharAt(lc, i + 11) \in {" ", "\n", "\t", "\r", "\f"}

\* lines 82-91: the (level, line_num) pairs of the matches of
\* heading_pattern from position from on.  A match is <h1..<h6 or
\* <GradientHeader with a last as="hN" before the first >, up to that >.
\* The pattern ignores case and group(1).startswith('h') does not: for an
\* upper-case H the level is int(group(2)) with group(2) None, recorded here
\* as level -1.
RECURSIVE headings(_, _, _)
headings(content, lc, from) ==
    LET LevelOf(c) == CHOOSE n \in 1..6 : SubSeq("123456", n, n) = c
        gt(i) == FindFrom(content, {">"}, i + 1)
        plain(i) == StartsAt(lc, "<h", i) /\ CharAt(lc, i + 2) \in {"1","2","3","4","5","6"}
        as(i) == { j \in (i + 15)..(gt(i) - 7) :
                     /\ StartsAt(lc, "as=\"h", j)
                     /\ CharAt(lc, j + 5) \in {"1","2","3","4","5","6"}
                     /\ CharAt(lc, j + 6) = "\"" }
        gradient(i) == StartsAt(lc, "<gradientheader", i) /\ as(i) # {}
        hits == { i \in from..Len(lc) : gt(i) > 0 /\ (plain(i) \/ gradient(i)) }
    IN  IF hits = {} THEN <<>>
        ELSE LET i == CHOOSE x \in hits : \A y \in hits : x <= y
                 j == CHOOSE x \in as(i) : \A y \in as(i) : x >= y
                 level == IF plain(i)
                          THEN IF CharAt(content, i + 1) = "h"
                               THEN LevelOf(CharAt(lc, i + 2)) ELSE -1
                          ELSE LevelOf(CharAt(lc, j + 5))
             IN  << [level |-> level, line_num |-> LineNo(content, i)] >>
                 \o headings(content, lc, gt(i) + 1)

\* lines 106-117 and 145-157: the skipped-level violations of the pairs
\* (headings[i-1], headings[i]) from index i on
RECURSIVE SkippedLevels(_, _, _)
SkippedLevels(file_name, hs, i) ==
    LET h(n) == "h" \o SubSeq("1234567", n, n)
        prev_level == hs[i - 1].level
        curr_level == hs[i].level
    IN  IF i > Len(hs) THEN <<>>
        ELSE (IF curr_level > prev_level + 1
              THEN << SemanticViolation("Heading level skipped", file_name, "error",
                        h(prev_level) \o " → " \o h(curr_level)
                          \o " skips levels (should be " \o h(prev_level) \o " → "
                          \o h(prev_level + 1) \o ")",
                        hs[i].line_num) >>
              ELSE <<>>)
             \o SkippedLevels(file_name, hs, i + 1)

\* lines 66-171; the result is the returned list, or the exception raised
check_heading_hierarchy(file_path, content) ==
    LET slash(i) == FindFrom(file_path, {"/"}, i)
        RECURSIVE basename(_)
        basename(i) == IF slash(i) = 0 THEN SubSeq(file_path, i, Len(file_path))
                       ELSE basename(slash(i) + 1)
        file_name == basename(1)
        lc == Lower(content)
        hs == headings(content, lc, 1)
        h1_count == Cardinality({ i \in 1..Len(hs) : hs[i].level = 1 })
        count_str == IF h1_count < 10 THEN SubSeq("0123456789", h1_count + 1, h1_count + 1)
                     ELSE "1" \o SubSeq("0123456789", h1_count - 9, h1_count - 9)
        Return(v) == [exc |-> "", violations |-> v]
    IN  IF ~is_page(file_path) THEN Return(<<>>)
        ELSE IF \E i \in 1..Len(hs) : hs[i].level = -1
        THEN [exc |-> "TypeError", violations |-> <<>>]
        ELSE IF has_page_header(lc)
        THEN Return(
               (IF Len(hs) > 0 /\ hs[1].level > 2
                THEN << SemanticViolation("Heading level skipped after PageHeader",
                          file_name, "error",
                          "PageHeader provides h1, but next heading is h"
                            \o SubSeq("123456", hs[1].level, hs[1].level)
                            \o " (should be h2)",
                          hs[1].line_num) >>
                ELSE <<>>)
               \o SkippedLevels(file_name, hs, 2))
        ELSE IF Len(hs) = 0
        THEN Return(<< SemanticViolation("Page without headings", file_name, "warning",
                         "Page should have at least one heading for structure", 0) >>)
        ELSE Return(
               (IF hs[1].level # 1
                THEN << SemanticViolation("First heading is not h1", file_name, "error",
                          "First heading is h" \o SubSeq("123456", hs[1].level, hs[1].level)
                            \o ", should be h1 (WCAG 1.3.1)",
                          hs[1].line_num) >>
                ELSE <<>>)
               \o SkippedLevels(file_name, hs, 2)
               \o (IF h1_count > 1
                   THEN << SemanticViolation("Multiple h1 elements", file_name, "error",
                             "Page has " \o count_str \o " h1 elements, should have exactly 1",
                             0) >>
                   ELSE <<>>))

(***************************************************************************)
(* check-enough-time.py: check_timing_adjustable                           *)
(***************************************************************************)
\* lines 75-79: the files known to use timers safely
skip_files == << "StatusModal.tsx", "ContactForm.tsx", "JobForm.tsx" >>

\* lines 88-91: re.search(r'\b(setTimeout|setInterval)\s*\(', line_stripped);
\* stripping the line does not change whether the pattern is found
timeout_pattern(line) ==
    \E i \in 1..Len(line) : \E name \in {"setTimeout", "setInterval"} :
        /\ StartsAt(line, name, i)
        /\ CharAt(line, i - 1) \notin WordChars
        /\ CharAt(line, SkipWs(line, i + Len(name))) = "("

\* re.search(word1|word2|..., context, re.IGNORECASE); lc is the context in
\* lower case
AnyWord(lc, words) == \E w \in words : Contains(lc, w)

\* lines 100-119: the five vocabulary tests of the context
\* the session vocabulary without the word timeout
is_session_timeout_WithoutTimeout(lc) == AnyWord(lc, {"session", "logout", "expire"})

is_session_timeout(lc) == AnyWord(lc, {"session", "logout", "timeout", "expire"})

is_countdown(lc) ==
    \/ AnyWord(lc, {"countdown", "timer", "remaining"})
    \/ \E i \in 1..Len(lc) :
          StartsAt(lc, "time", i) /\ StartsAt(lc, "left", SkipWs(lc, i + 4))

is_auto_submit(lc) == AnyWord(lc, {"submit"})

is_animation(lc) == AnyWord(lc, {"animation", "transition", "delay", "fade", "slide"})

is_debounce(lc) == AnyWord(lc, {"debounce", "throttle"})

\* lines 84-138: the violations of the lines from the i-th on.  The context
\* of line i is lines[max(0, i - 10):min(len(lines), i + 10)] joined with
\* newlines.  short_duration (lines 122-126) is computed from the line and
\* read only by the elif branch, whose body is pass.
RECURSIVE TimingViolations(_, _, _)
TimingViolations(file_path, lines, i) ==
    IF i > Len(lines) THEN <<>>
    ELSE LET context == Lower(Join(SubSeq(lines, Max(0, i - 10) + 1, Min(Len(lines), i + 10)),
                                   "\n"))
         IN  (IF /\ timeout_pattern(lines[i])
                 /\ is_session_timeout(context) \/ is_countdown(context)
                      \/ is_auto_submit(context)
                 /\ ~(is_animation(context) \/ is_debounce(context))
              THEN << << file_path, i,
                         "Potential time limit detected - ensure users can turn off, adjust, or extend the time limit (SC 2.2.1)" >> >>
              ELSE <<>>)
             \o TimingViolations(file_path, lines, i + 1)

\* lines 56-140
check_timing_adjustable(file_path, content) ==
    IF \E k \in 1..Len(skip_files) : Contains(file_path, skip_files[k])
    THEN <<>>
    ELSE TimingViolations(file_path, SplitOn(content, "\n"), 1)

(***************************************************************************)
(* The rules of the checkers applied to one source file                    *)
(*                                                                         *)
(* script names the rule, files holds the one file, fs its lines; the      *)
(* rule is applied and all_issues holds what it returns.                   *)
(***************************************************************************)
\* source files for detect_missing_name_role_value, one element per line
NameRuleSources ==
    { << "<button aria-label=\"Close\"></button>\n" >>,
      << "<div aria-label=\"Close\" role=\"button\"></div>\n" >>,
      << "<div role=\"button\" aria-label=\"Close\"></div>\n" >>,
      << "<input aria-label={label} />\n" >>,
      << "<a href=\"/x\" aria-label=\"Home\"></a>\n" >>,
      << "<select aria-label='S'></select>\n" >>,
      << "<textarea aria-label={t} />\n" >>,
      << "<button aria-label = \"Close\"></button>\n" >>,
      << "<button></button>\n", "<button aria-label=\"\"></button>\n" >>,
      << "<span>x</span>\n", "<li aria-label=\"One\" role=\"tab\"></li>\n" >>,
      << "<button>Save</button>\n", "<input type=\"text\" />\n" >> }

\* source files for find_labelled_inputs, one element per line
LabelRuleSources ==
    { << "<input placeholder=\"Name\" />\n" >>,
      << "<input type=\"text\" placeholder=\"Name\" aria-label=\"Name\" />\n" >>,
      << "<input placeholder=\"Name\" aria-label={label} />\n" >>,
      << "<input onChange={(e) => set(e)} aria-label=\"Name\" />\n" >>,
      << "<textarea aria-label=\"Msg\"></textarea>\n", "<select aria-label='S'>\n" >>,
      << "<input aria-label=\"\" placeholder=\"x\" />\n" >>,
      << "<label for=\"q\">Q</label>\n", "<input id=\"q\" placeholder=\"Name\" />\n" >>,
      << "<input id=\"q\" placeholder=\"Name\" />\n", "<input placeholder=\"b\" aria-labelledby=\"l\" />\n" >>,
      << "<input type=\"hidden\" name=\"token\" />\n", "<textarea placeholder=\"t\"></textarea>\n" >>,
      << "<input name=\"email\" placeholder=\"E\" />\n" >>,
      << "<input name=\"phone\" type=\"text\" placeholder=\"P\" />\n" >>,
      << "<input type=\"text\" />\n", "<select>\n" >>,
      << "<input\n", "  placeholder=\"Search\"\n", "/>\n" >> }

\* the longest page of generated headings and the deepest generated level
MaxHeadings == 3
MaxLevel == 4

\* source files for check_heading_hierarchy: every sequence of up to
\* MaxHeadings headings of levels 1..MaxLevel, one heading per line, with
\* and without a PageHeader element on the first line, and pages with
\* GradientHeader elements, upper-case tags and level 6
HeadingRuleSources ==
    LET h(n) == SubSeq("123456", n, n)
        HeadingLine(n) == "<h" \o h(n) \o ">Title</h" \o h(n) \o ">\n"
        Levels == UNION { [1..n -> 1..MaxLevel] : n \in 0..MaxHeadings }
        Lines(levels) == [i \in 1..Len(levels) |-> HeadingLine(levels[i])]
    IN  { Lines(levels) : levels \in Levels }
        \cup { << "<PageHeader title=\"T\" />\n" >> \o Lines(levels) : levels \in Levels }
        \cup { << "<GradientHeader className=\"x\" as=\"h1\">T</GradientHeader>\n",
                  "<h2>A</h2>\n", "<h6>B</h6>\n" >>,
               << "<H1>Title</H1>\n", "<h2>A</h2>\n" >>,
               << "<PageHeader title=\"T\" />\n", "<H2>A</H2>\n" >>,
               << "<h1>Title</h1>\n", "<GradientHeader as=\"h3\">T</GradientHeader>\n" >> }

\* source files for detect_aria_attribute_role_mismatch, one element per
\* line
MismatchRuleSources ==
    { << "<a href=\"/x\" aria-pressed=\"true\">x</a>\n" >>,
      << "<button aria-checked=\"true\">x</button>\n" >>,
      << "<div aria-pressed=\"true\">x</div>\n" >>,
      << "<div role=\"link\" aria-pressed=\"true\">x</div>\n" >>,
      << "<div role=\"button\" aria-pressed=\"true\">x</div>\n" >>,
      << "<button aria-pressed=\"true\">x</button>\n" >>,
      << "<div role=\"checkbox\" aria-checked=\"true\"></div>\n" >>,
      << "<li aria-selected={on}></li>\n" >>,
      << "<button role=\"switch\" aria-pressed=\"true\"></button>\n" >>,
      << "<a aria-expanded=\"false\" href=\"/x\"></a>\n" >>,
      << "<div aria-checked=\"true\" role=\"button\"></div>\n" >>,
      << "<button aria-selected=\"true\" aria-haspopup=\"menu\">x</button>\n" >>,
      << "<div role=\"tab\" aria-selected=\"true\" aria-expanded=\"true\"></div>\n" >>,
      << "<span aria-haspopup=\"true\">x</span>\n" >>,
      << "<p>text</p>\n" >> }

\* source files for check_timing_adjustable: a timer call with a literal
\* duration, alone or after a line of surrounding vocabulary
TimingRuleSources ==
    LET Calls == { "  setTimeout(() => logout(), 300);\n",
                   "  setTimeout(() => setOpen(false), 300);\n",
                   "  setInterval(tick, 1000);\n",
                   "  setInterval(poll, 60000);\n",
                   "  setTimeout(expireSession, 1800000);\n",
                   "  const id = window.setInterval(refresh, 4999);\n" }
        Nearby == { "// session countdown\n", "// fade out\n", "const save = useDebounce(fn);\n",
                    "form.submit();\n", "const [open, setOpen] = useState(false);\n" }
        Blank(k) == [i \in 1..k |-> "\n"]
        Call == "  window.setTimeout(() => close(), 8000);\n"
    IN  { << c >> : c \in Calls } \cup { << b, c >> : b \in Nearby, c \in Calls }
        \cup { << "// fade out\n" >> \o Blank(k) \o << Call >> : k \in 8..9 }
        \cup { << Call >> \o Blank(k) \o << "// fade out\n" >> : k \in 9..10 }

\* source files for detect_missing_status_messages
StatusRuleSources ==
    { << "<p>{error}</p>\n", "setError(\"failed\");\n" >>,
      << "const res = await fetch(url);\n", "<p className=\"status\">Saved</p>\n" >>,
      << "dispatch({ type: \"toast\", message });\n", "<div>{message}</div>\n" >>,
      << "<p aria-live=\"polite\">{error}</p>\n", "setError(\"failed\");\n" >>,
      << "<p role=\"alert\">{error}</p>\n", "setState({ error });\n" >>,
      << "<p>{error}</p>\n" >>,
      << "<p>{count}</p>\n", "setCount(count + 1);\n" >>,
      << "const r = /\\berror\\b/;\n", "setState(r);\n", "return <p>x</p>;\n" >>,
      << "const r = /\\bstatus\\b/;\n", "fetch(r);\n", "return <p role='status'>x</p>;\n" >> }

RuleSources(rule) ==
    CASE rule = "detect_missing_name_role_value" -> NameRuleSources
      [] rule = "detect_missing_status_messages" -> StatusRuleSources
      [] rule = "check_timing_adjustable" -> TimingRuleSources
      [] rule = "detect_aria_attribute_role_mismatch" -> MismatchRuleSources
      [] rule = "find_labelled_inputs" -> LabelRuleSources
      [] rule = "check_heading_hierarchy" -> HeadingRuleSources

\* the paths the rules are applied to
RuleFiles(rule) ==
    CASE rule = "check_heading_hierarchy"
           -> { "pages/index.tsx", "pages/_app.tsx", "components/Hero.tsx" }
      [] rule = "check_timing_adjustable"
           -> { "./pages/index.tsx", "./components/StatusModal.tsx" }
      [] OTHER -> { "pages/index.tsx" }

RuleNames ==
    { "detect_missing_name_role_value", "find_labelled_inputs", "check_heading_hierarchy",
      "detect_aria_attribute_role_mismatch", "check_timing_adjustable",
      "detect_missing_status_messages" }

InitRule ==
    /\ script \in RuleNames
    /\ files \in { << f >> : f \in RuleFiles(script) }
    /\ fs \in [ {files[1]} -> RuleSources(script) ]
    /\ pc = "call"
    /\ all_issues = <<>>
    /\ report = <<>>
    /\ idx = 1
    /\ exit_code = -1
    /\ exc = ""
    /\ html_files = <<>>
    /\ public_files = {}
    /\ all_pages = {}
    /\ all_broken_links = <<>>
    /\ run = 1
    /\ prev_report = <<>>
    /\ prev_exit = -1
    /\ sidx = 1
    /\ block = ""
    /\ result = NoResult
    /\ all_errors = <<>>
    /\ all_warnings = <<>>
    /\ pages_with_schemas = 0
    /\ total_schemas = 0

\* check-compatible.py line 317
ApplyNameRule ==
    /\ script = "detect_missing_name_role_value"
    /\ pc = "call"
    /\ \E issues \in { detect_missing_name_role_value(files[1], Join(fs[files[1]], "")) } :
          all_issues' = issues
    /\ pc' = "returned"
    /\ UNCHANGED <<html_files, fs, idx, exit_code, exc, link_vars, sd_vars, script, files,
                   report>>

\* check-input-assistance.py: issues.extend(find_labelled_inputs(file_path, lines))
ApplyLabelRule ==
    /\ script = "find_labelled_inputs"
    /\ pc = "call"
    /\ \E issues \in { find_labelled_inputs(files[1], fs[files[1]]) } :
          all_issues' = issues
    /\ pc' = "returned"
    /\ UNCHANGED <<html_files, fs, idx, exit_code, exc, link_vars, sd_vars, script, files,
                   report>>

\* check-compatible.py line 319
ApplyMismatchRule ==
    /\ script = "detect_aria_attribute_role_mismatch"
    /\ pc = "call"
    /\ \E issues \in { detect_aria_attribute_role_mismatch(files[1], Join(fs[files[1]], "")) } :
          all_issues' = issues
    /\ pc' = "returned"
    /\ UNCHANGED <<html_files, fs, idx, exit_code, exc, link_vars, sd_vars, script, files,
                   report>>

\* check-enough-time.py line 288
ApplyTimingRule ==
    /\ script = "check_timing_adjustable"
    /\ pc = "call"
    /\ \E issues \in { check_timing_adjustable(files[1], Join(fs[files[1]], "")) } :
          all_issues' = issues
    /\ pc' = "returned"
    /\ UNCHANGED <<html_files, fs, idx, exit_code, exc, link_vars, sd_vars, script, files,
                   report>>

\* check-compatible.py line 318
ApplyStatusRule ==
    /\ script = "detect_missing_status_messages"
    /\ pc = "call"
    /\ \E issues \in { detect_missing_status_messages(files[1], Join(fs[files[1]], "")) } :
          all_issues' = issues
    /\ pc' = "returned"
    /\ UNCHANGED <<html_files, fs, idx, exit_code, exc, link_vars, sd_vars, script, files,
                   report>>

\* check-semantic-structure.py line 415, the call returns
HeadingRuleReturns ==
    /\ script = "check_heading_hierarchy"
    /\ pc = "call"
    /\ \E r \in { check_heading_hierarchy(files[1], Join(fs[files[1]], "")) } :
          /\ r.exc = ""
          /\ all_issues' = r.violations
    /\ pc' = "returned"
    /\ UNCHANGED <<html_files, fs, idx, exit_code, exc, link_vars, sd_vars, script, files,
                   report>>

\* check-semantic-structure.py line 415, the call raises
HeadingRuleRaises ==
    /\ script = "check_heading_hierarchy"
    /\ pc = "call"
    /\ \E r \in { check_heading_hierarchy(files[1], Join(fs[files[1]], "")) } :
          /\ r.exc # ""
          /\ exc' = r.exc
    /\ pc' = "raised"
    /\ UNCHANGED <<html_files, fs, idx, exit_code, link_vars, sd_vars, scan_vars>>

NextRule ==
    \/ ApplyNameRule
    \/ ApplyLabelRule
    \/ HeadingRuleReturns
    \/ HeadingRuleRaises
    \/ ApplyMismatchRule
    \/ ApplyTimingRule
    \/ ApplyStatusRule

SpecRule == InitRule /\ [][NextRule]_vars

(***************************************************************************)
(* check-contrast.py                                                       *)
(*                                                                         *)
(* A float in [0, 1] is held in fixed point: a channel and an adjusted     *)
(* channel in units of 1/10000, a luminance in units of 1/100000000.  A    *)
(* quotient is held as the pair of its numerator and denominator.          *)
(***************************************************************************)
\* lines 19-22: hex_color.lstrip('#') and the three two-digit base-16 ints
hex_to_rgb(hex_color) ==
    LET start == SkipWhile(hex_color, {"#"}, 1)
        hex   == SubSeq(hex_color, start, Len(hex_color))
        int16(i) == 16 * HexVal(Char(hex, i + 1)) + HexVal(Char(hex, i + 2))
    IN  << int16(0), int16(2), int16(4) >>

\* a * b for fixed-point a and b in units of 1/10000
FixMul(a, b) == (a * b) \div 10000

\* the largest y in lo..hi with y^5 <= w, all in units of 1/10000
RECURSIVE FixRoot5(_, _, _)
FixRoot5(w, lo, hi) ==
    LET mid  == (lo + hi + 1) \div 2
        sq   == FixMul(mid, mid)
        pow5 == FixMul(FixMul(sq, sq), mid)
    IN  IF lo >= hi THEN lo
        ELSE IF pow5 <= w THEN FixRoot5(w, mid, hi) ELSE FixRoot5(w, lo, mid - 1)

\* lines 29-32: channel / 12.92 up to 0.03928, else
\* ((channel + 0.055) / 1.055) ** 2.4, the power as v^2 times the fifth
\* root of v^2
adjust(channel) ==
    IF channel <= 392 THEN (channel * 100) \div 1292
    ELSE LET v  == ((channel + 550) * 1000) \div 1055
             sq == FixMul(v, v)
         IN  FixMul(sq, FixRoot5(sq, 0, 10000))

\* lines 25-35
relative_luminance(rgb) ==
    LET r == adjust((rgb[1] * 10000) \div 255)
        g == adjust((rgb[2] * 10000) \div 255)
        b == adjust((rgb[3] * 10000) \div 255)
    IN  2126 * r + 7152 * g + 722 * b

\* lines 38-44 without the ordering of the two luminances
contrast_ratio_Unordered(color1, color2) ==
    LET lum1 == relative_luminance(hex_to_rgb(color1))
        lum2 == relative_luminance(hex_to_rgb(color2))
    IN  [num |-> lum1 + 5000000, den |-> lum2 + 5000000]

\* lines 38-44: (lighter + 0.05) / (darker + 0.05)
contrast_ratio(color1, color2) ==
    LET lum1 == relative_luminance(hex_to_rgb(color1))
        lum2 == relative_luminance(hex_to_rgb(color2))
        lighter == Max(lum1, lum2)
        darker  == Min(lum1, lum2)
    IN  [num |-> lighter + 5000000, den |-> darker + 5000000]

\* lines 55-65: the palette, and further six-digit colors with and without
\* the leading #
HexColors ==
    { "#185f99", "#14497a", "#0f3559", "#3397cf", "#36AADD", "#FFFFFF", "#242929",
      "#000000", "ffffff", "#0a0a0a", "0B0b0B", "#ff0000" }

\* files holds the foreground and the background color; report holds the
\* calls made so far with their ratios
InitContrast ==
    /\ script = "check-contrast"
    /\ files \in { << fg, bg >> : fg \in HexColors, bg \in HexColors }
    /\ report = {}
    /\ pc = "call"
    /\ fs = << >>
    /\ all_issues = <<>>
    /\ idx = 1
    /\ exit_code = -1
    /\ exc = ""
    /\ html_files = <<>>
    /\ public_files = {}
    /\ all_pages = {}
    /\ all_broken_links = <<>>
    /\ run = 1
    /\ prev_report = <<>>
    /\ prev_exit = -1
    /\ sidx = 1
    /\ block = ""
    /\ result = NoResult
    /\ all_errors = <<>>
    /\ all_warnings = <<>>
    /\ pages_with_schemas = 0
    /\ total_schemas = 0

\* line 113: ratio = contrast_ratio(fg_color, bg_color), for the two colors
\* in either order and for a color with itself
ContrastRatio ==
    /\ script = "check-contrast"
    /\ \E color1 \in { files[1], files[2] } : \E color2 \in { files[1], files[2] } :
          /\ \A c \in report : c.color1 # color1 \/ c.color2 # color2
          /\ \E ratio \in { contrast_ratio(color1, color2) } :
                report' = report \cup { [color1 |-> color1, color2 |-> color2,
                                         ratio |-> ratio] }
    /\ UNCHANGED <<pc, html_files, fs, idx, exit_code, exc, link_vars, sd_vars, script, files,
                   all_issues>>

NextContrast == ContrastRatio

SpecContrast == InitContrast /\ [][NextContrast]_vars

(***************************************************************************)
(* check-contrast.py: check_wcag_aa and main                               *)
(***************************************************************************)
\* lines 47-51 with > in place of >=
check_wcag_aa_Strict(ratio, is_large_text) ==
    LET required == IF is_large_text THEN [num |-> 3, den |-> 1] ELSE [num |-> 9, den |-> 2]
    IN  [passes |-> ratio.num * required.den > required.num * ratio.den,
         required |-> required]

\* lines 47-51: required is 3.0 or 4.5, held as a quotient
check_wcag_aa(ratio, is_large_text) ==
    LET required == IF is_large_text THEN [num |-> 3, den |-> 1] ELSE [num |-> 9, den |-> 2]
    IN  [passes |-> ratio.num * required.den >= required.num * ratio.den,
         required |-> required]

\* lines 55-65
COLORS ==
    [ k \in { "primary-500", "primary-600", "primary-700", "primary-400", "secondary-500",
              "secondary-600", "secondary-700", "white", "gray-900" } |->
        CASE k = "primary-500" -> "#185f99"
          [] k = "primary-600" -> "#14497a"
          [] k = "primary-700" -> "#0f3559"
          [] k = "primary-400" -> "#3397cf"
          [] k = "secondary-500" -> "#36AADD"
          [] k = "secondary-600" -> "#14497a"
          [] k = "secondary-700" -> "#0f3559"
          [] k = "white" -> "#FFFFFF"
          [] k = "gray-900" -> "#242929" ]

\* the longest list of test cases
MaxCases == 2

\* lines 68-96: lists of up to MaxCases test cases (name, fg, bg, required,
\* is_large) over color pairs of the palette with ratios above 4.5, between
\* 3.0 and 4.5, and below 3.0
TestCaseLists ==
    LET Pairs == { <<"white", "primary-500">>, <<"white", "primary-400">>,
                   <<"white", "secondary-500">>, <<"gray-900", "secondary-500">> }
        Cases == { << "Test", p[1], p[2], IF l THEN "3.0" ELSE "4.5", l >> :
                     p \in Pairs, l \in BOOLEAN }
    IN  UNION { [1..n -> Cases] : n \in 0..MaxCases }

\* ratios on both sides of the two thresholds and on them
SampleRatios ==
    { [num |-> 9, den |-> 2], [num |-> 3, den |-> 1], [num |-> 449, den |-> 100],
      [num |-> 451, den |-> 100], [num |-> 299, den |-> 100], [num |-> 301, den |-> 100],
      [num |-> 1, den |-> 1], [num |-> 21, den |-> 1] }

\* script is check_wcag_aa for one call of the function on block (the ratio
\* and the large-text flag), and check-contrast for a run of main over the
\* test cases in files, with failed_tests in all_issues
InitWcag ==
    /\ \/ /\ script = "check_wcag_aa"
          /\ block \in { << r, l >> : r \in SampleRatios, l \in BOOLEAN }
          /\ files = <<>>
          /\ pc = "call"
       \/ /\ script = "check-contrast"
          /\ block = ""
          /\ files \in TestCaseLists
          /\ pc = "tests"
    /\ idx = 1
    /\ all_issues = <<>>
    /\ report = <<>>
    /\ exit_code = -1
    /\ result = NoResult
    /\ fs = << >>
    /\ exc = ""
    /\ html_files = <<>>
    /\ public_files = {}
    /\ all_pages = {}
    /\ all_broken_links = <<>>
    /\ run = 1
    /\ prev_report = <<>>
    /\ prev_exit = -1
    /\ sidx = 1
    /\ all_errors = <<>>
    /\ all_warnings = <<>>
    /\ pages_with_schemas = 0
    /\ total_schemas = 0

\* one call of check_wcag_aa
CallCheckWcagAa ==
    /\ script = "check_wcag_aa"
    /\ pc = "call"
    /\ result' = check_wcag_aa(block[1], block[2])
    /\ pc' = "returned"
    /\ UNCHANGED <<html_files, fs, idx, exit_code, exc, link_vars, sidx, block, all_errors,
                   all_warnings, pages_with_schemas, total_schemas, scan_vars>>

\* lines 109-121: one iteration of the loop over TEST_CASES
ContrastTest ==
    /\ script = "check-contrast"
    /\ pc = "tests"
    /\ idx <= Len(files)
    /\ LET name     == files[idx][1]
           fg_color == COLORS[files[idx][2]]
           bg_color == COLORS[files[idx][3]]
           is_large == files[idx][5]
       IN  \E ratio \in { contrast_ratio(fg_color, bg_color) } :
           \E check \in { check_wcag_aa(ratio, is_large) } :
              /\ result' = check
              /\ all_issues' = IF ~check.passes
                               THEN Append(all_issues, << name, ratio, check.required >>)
                               ELSE all_issues
    /\ idx' = idx + 1
    /\ UNCHANGED <<pc, html_files, fs, exit_code, exc, link_vars, sidx, block, all_errors,
                   all_warnings, pages_with_schemas, total_schemas, script, files, report>>

\* lines 125-148 and 152: the status main returns
ContrastReturn ==
    /\ script = "check-contrast"
    /\ pc = "tests"
    /\ idx > Len(files)
    /\ exit_code' = IF all_issues # <<>> THEN 1 ELSE 0
    /\ pc' = "done"
    /\ UNCHANGED <<html_files, fs, idx, exc, link_vars, sd_vars, scan_vars>>

NextWcag ==
    \/ CallCheckWcagAa
    \/ ContrastTest
    \/ ContrastReturn

SpecWcag == InitWcag /\ [][NextWcag]_vars

(***************************************************************************)
(* optimize-images.py and check-image-optimization.py                      *)
(*                                                                         *)
(* The filesystem fs maps the path of each file to its content: the image  *)
(* it shows, its format, the WebP quality it was saved with (0 for a file  *)
(* the tool did not write) and its size in bytes.  report is the list of   *)
(* the operations on the filesystem, each with the index of the call of    *)
(* optimize_image that made it.                                            *)
(***************************************************************************)
\* line 69: CONVERTIBLE_EXTENSIONS
CONVERTIBLE_EXTENSIONS == {".jpg", ".jpeg", ".png", ".gif", ".bmp"}

\* Path.suffix: the name from its last dot on
suffix(path) ==
    LET dots == { i \in 1..Len(path) : Char(path, i) = "." }
    IN  IF dots = {} THEN ""
        ELSE SubSeq(path, CHOOSE i \in dots : \A j \in dots : j <= i, Len(path))

\* Path.with_suffix(s)
WithSuffix(path, s) == SubSeq(path, 1, Len(path) - Len(suffix(path))) \o s

\* the pictures of the sampled files, with the highest quality at which the
\* WebP encoding of the picture is at most 100KB (0: at no quality); the
\* picture broken cannot be opened by Image.open
FitsAt(image) ==
    CASE image = "icon" -> 100
      [] image = "photo" -> 60
      [] image = "poster" -> 0
      [] OTHER -> 100

\* the size of the file save_img.save(output_path, 'WEBP', quality=q) writes
EncodedSize(image, q) == IF q <= FitsAt(image) THEN 40960 ELSE 153600

File(image, format, quality, size) ==
    [image |-> image, format |-> format, quality |-> quality, size |-> size]

\* fs with the file at path written or replaced
WriteFile(fsys, path, file) ==
    [p \in DOMAIN fsys \cup {path} |-> IF p = path THEN file ELSE fsys[p]]

\* fs where unlink leaves the file in place
Unlink_KeepsFile(fsys, path) == fsys

\* fs without the file at path
Unlink(fsys, path) == [p \in DOMAIN fsys \ {path} |-> fsys[p]]

\* lines 182-194: the saves of the quality loop from current_quality on;
\* the result is the filesystem and the list of operations
RECURSIVE QualityLoop(_, _, _, _, _, _)
QualityLoop(fsys, ops, call, output_path, image, current_quality) ==
    IF current_quality < 20 THEN [fs |-> fsys, ops |-> ops]
    ELSE LET saved == WriteFile(fsys, output_path,
                          File(image, "webp", current_quality,
                               EncodedSize(image, current_quality)))
             done  == Append(ops, [call |-> call, op |-> "save", path |-> output_path,
                                   image |-> image])
         IN  IF saved[output_path].size <= 100 * 1024
             THEN [fs |-> saved, ops |-> done]
             ELSE QualityLoop(saved, done, call, output_path, image, current_quality - 5)

\* lines 116-143: the size a dry run estimates; the ratios are in
\* thousandths
EstimatedSize(original_size, ext, quality) ==
    LET compression_ratio ==
            CASE ext = ".webp" -> 850
              [] ext \in {".jpg", ".jpeg"} -> 650 + (quality - 80) * 5
              [] ext = ".png" -> 500
              [] OTHER -> 450
        estimated_size == (original_size * compression_ratio) \div 1000
    IN  IF estimated_size > 100 * 1024 THEN 100 * 1024 ELSE estimated_size

\* lines 103-112 and 145-208: the call when it is not a dry run
ConvertImage(fsys, call, input_path, quality, backup, dry_run) ==
    LET Result(f, ops, success, action, original_size, new_size) ==
            [fs |-> f, ops |-> ops, success |-> success, action |-> action,
             original_size |-> original_size, new_size |-> new_size]
        ext == Lower(suffix(input_path))
        output_path == IF ext = ".webp" THEN input_path ELSE WithSuffix(input_path, ".webp")
        backed == IF backup /\ input_path # output_path
                  THEN [fs |-> WriteFile(fsys, input_path \o ".bak", fsys[input_path]),
                        ops |-> << [call |-> call, op |-> "copy2",
                                    path |-> input_path \o ".bak",
                                    image |-> fsys[input_path].image] >>]
                  ELSE [fs |-> fsys, ops |-> <<>>]
        looped == QualityLoop(backed.fs, backed.ops, call, output_path,
                              fsys[input_path].image, quality)
    IN  IF input_path \notin DOMAIN fsys
        THEN Result(fsys, <<>>, FALSE, "Error: FileNotFoundError", 0, 0)
        ELSE IF fsys[input_path].image = "broken"
        THEN Result(backed.fs, backed.ops, FALSE, "Error: UnidentifiedImageError",
                    fsys[input_path].size, 0)
        ELSE IF output_path \notin DOMAIN looped.fs
        THEN Result(looped.fs, looped.ops, FALSE, "Error: FileNotFoundError",
                    fsys[input_path].size, 0)
        ELSE IF input_path # output_path
        THEN Result(Unlink(looped.fs, input_path),
                    Append(looped.ops, [call |-> call, op |-> "unlink", path |-> input_path,
                                        image |-> fsys[input_path].image]),
                    TRUE, "Converted to webp", fsys[input_path].size,
                    looped.fs[output_path].size)
        ELSE Result(looped.fs, looped.ops, TRUE, "Compressed", fsys[input_path].size,
                    looped.fs[output_path].size)

\* optimize_image without the return of the dry run (lines 114-143)
optimize_image_NoDryRun(fsys, call, input_path, quality, backup, dry_run) ==
    ConvertImage(fsys, call, input_path, quality, backup, dry_run)

\* lines 85-208: the filesystem after the call, the operations made, and
\* the returned tuple
optimize_image(fsys, call, input_path, quality, backup, dry_run) ==
    IF dry_run /\ input_path \in DOMAIN fsys
    THEN [fs |-> fsys, ops |-> <<>>, success |-> TRUE,
          action |-> IF Lower(suffix(input_path)) = ".webp" THEN "compress"
                     ELSE "convert to webp",
          original_size |-> fsys[input_path].size,
          new_size |-> EstimatedSize(fsys[input_path].size, Lower(suffix(input_path)),
                                     quality)]
    ELSE ConvertImage(fsys, call, input_path, quality, backup, dry_run)

\* the paths of the sampled trees in the order sorted() gives them
SortedImagePaths ==
    << "public/assets/common/B.PNG", "public/assets/common/B.PNG.bak",
       "public/assets/common/B.webp",
       "public/assets/common/a.jpg", "public/assets/common/a.jpg.bak",
       "public/assets/common/a.png", "public/assets/common/a.png.bak",
       "public/assets/common/a.webp", "public/assets/common/logo.svg" >>

\* lines 250-291: the convertible files and the WebP files over 100KB
find_images_to_optimize(fsys) ==
    SelectSeq(SortedImagePaths,
              LAMBDA p : /\ p \in DOMAIN fsys
                         /\ Lower(suffix(p)) # ".svg"
                         /\ \/ Lower(suffix(p)) \in CONVERTIBLE_EXTENSIONS
                            \/ Lower(suffix(p)) = ".webp" /\ fsys[p].size > 100 * 1024)

\* check-image-optimization.py lines 62-113: the paths of format_issues
check_images(fsys) ==
    { p \in DOMAIN fsys :
        /\ Lower(suffix(p)) \in CONVERTIBLE_EXTENSIONS \cup {".webp", ".svg"}
        /\ Lower(suffix(p)) # ".svg"
        /\ Lower(suffix(p)) # ".webp" }

\* the most files a sampled tree holds
MaxImages == 3

\* the files a sampled tree can hold at each path
ImageChoices ==
    [p \in { "public/assets/common/a.jpg", "public/assets/common/a.png",
             "public/assets/common/a.webp", "public/assets/common/B.PNG",
             "public/assets/common/logo.svg" } |->
        CASE p = "public/assets/common/a.jpg" ->
                 { File("photo", "jpeg", 0, 204800), File("broken", "jpeg", 0, 1024) }
          [] p = "public/assets/common/a.png" ->
                 { File("icon", "png", 0, 51200), File("poster", "png", 0, 307200) }
          [] p = "public/assets/common/a.webp" ->
                 { File("banner", "webp", 0, 40960), File("mural", "webp", 0, 204800) }
          [] p = "public/assets/common/B.PNG" -> { File("badge", "png", 0, 51200) }
          [] OTHER -> { File("logo", "svg", 0, 2048) }]

\* the sampled trees under the image directories
ImageTrees ==
    UNION { [paths -> UNION { ImageChoices[p] : p \in paths }] :
            paths \in { P \in SUBSET DOMAIN ImageChoices : Cardinality(P) <= MaxImages } }

\* lines 296-316: the arguments, with qualities outside 1..100 and below the
\* least quality of the loop
OptimizeArgs ==
    [quality : {0, 10, 50, 80}, backup : BOOLEAN, dry_run : BOOLEAN]

InitOptimize ==
    /\ script = "optimize-images"
    /\ block \in OptimizeArgs
    /\ fs \in { t \in ImageTrees : \A p \in DOMAIN t : t[p] \in ImageChoices[p] }
    /\ public_files = fs
    /\ files = <<>>
    /\ pc = "args"
    /\ idx = 1
    /\ all_issues = <<>>
    /\ report = <<>>
    /\ exit_code = -1
    /\ result = NoResult
    /\ exc = ""
    /\ html_files = <<>>
    /\ all_pages = <<>>
    /\ all_broken_links = {}
    /\ run = 1
    /\ prev_report = <<>>
    /\ prev_exit = -1
    /\ sidx = 1
    /\ all_errors = <<>>
    /\ all_warnings = <<>>
    /\ pages_with_schemas = 0
    /\ total_schemas = 0

\* lines 319-322: a quality outside 1..100 is refused
QualityRefused ==
    /\ script = "optimize-images"
    /\ pc = "args"
    /\ block.quality < 1 \/ block.quality > 100
    /\ exit_code' = 1
    /\ pc' = "done"
    /\ UNCHANGED <<html_files, fs, idx, exc, link_vars, sd_vars, scan_vars>>

\* lines 336-345: no image needs optimization
NoImagesFound ==
    /\ script = "optimize-images"
    /\ pc = "args"
    /\ ~(block.quality < 1 \/ block.quality > 100)
    /\ find_images_to_optimize(fs) = <<>>
    /\ exit_code' = 0
    /\ pc' = "done"
    /\ UNCHANGED <<html_files, fs, idx, exc, link_vars, sd_vars, scan_vars>>

\* lines 336-347: the images to process
ImagesFound ==
    /\ script = "optimize-images"
    /\ pc = "args"
    /\ ~(block.quality < 1 \/ block.quality > 100)
    /\ find_images_to_optimize(fs) # <<>>
    /\ files' = find_images_to_optimize(fs)
    /\ pc' = "images"
    /\ UNCHANGED <<html_files, fs, idx, exit_code, exc, link_vars, sd_vars, script,
                   all_issues, report>>

\* lines 358-391: one iteration of the loop over images
OptimizeOne ==
    /\ script = "optimize-images"
    /\ pc = "images"
    /\ idx <= Len(files)
    /\ \E r \in { optimize_image(fs, idx, files[idx], block.quality, block.backup,
                                 block.dry_run) } :
          /\ fs' = r.fs
          /\ report' = report \o r.ops
          /\ all_issues' = Append(all_issues, [path |-> files[idx], success |-> r.success,
                                               action |-> r.action,
                                               original_size |-> r.original_size,
                                               new_size |-> r.new_size])
    /\ idx' = idx + 1
    /\ UNCHANGED <<pc, html_files, exit_code, exc, link_vars, sd_vars, script, files>>

\* lines 393-448 and 452: the status main returns
OptimizeReturn ==
    /\ script = "optimize-images"
    /\ pc = "images"
    /\ idx > Len(files)
    /\ exit_code' = IF \E i \in 1..Len(all_issues) : ~all_issues[i].success THEN 1 ELSE 0
    /\ pc' = "done"
    /\ UNCHANGED <<html_files, fs, idx, exc, link_vars, sd_vars, scan_vars>>

\* after the run: find_images_to_optimize once more, and the format issues
\* check-image-optimization.py finds
CheckAfterRun ==
    /\ script = "optimize-images"
    /\ pc = "done"
    /\ all_pages' = find_images_to_optimize(fs)
    /\ all_broken_links' = check_images(fs)
    /\ pc' = "checked"
    /\ UNCHANGED <<html_files, fs, idx, exit_code, exc, public_files, run, prev_report,
                   prev_exit, sd_vars, scan_vars>>

NextOptimize ==
    \/ QualityRefused
    \/ NoImagesFound
    \/ ImagesFound
    \/ OptimizeOne
    \/ OptimizeReturn
    \/ CheckAfterRun

SpecOptimize == InitOptimize /\ [][NextOptimize]_vars

(***************************************************************************)
(* validate-seo.py                                                         *)
(*                                                                         *)
(* fs maps the path of each .html file under .next/server/pages to what    *)
(* BeautifulSoup finds in it.  The sets and lists of main are held in      *)
(* all_pages (all_titles), public_files (all_descriptions), all_errors     *)
(* (duplicate_titles), all_warnings (duplicate_descriptions) and           *)
(* all_issues (pages_with_issues).  None and the empty string, which the   *)
(* tests of main treat alike, are both the empty string.                   *)
(***************************************************************************)
\* str.strip()
RECURSIVE strip(_)
strip(t) ==
    IF t = "" THEN ""
    ELSE IF Char(t, 1) \in Whitespace THEN strip(DropFirst(t, 1))
    ELSE IF Char(t, Len(t)) \in Whitespace THEN strip(DropLast(t, 1))
    ELSE t

\* str.replace(old, new)
RECURSIVE replace(_, _, _)
replace(t, old, new) ==
    IF t = "" THEN ""
    ELSE IF StartsWith(t, old) THEN new \o replace(DropFirst(t, Len(old)), old, new)
    ELSE Char(t, 1) \o replace(DropFirst(t, 1), old, new)

\* lines 148-151: the page path of a file, from its path under pages_dir
page_path_of(relative_path) ==
    LET page_path == replace(replace("/" \o relative_path, ".html", ""), "/index", "")
    IN  IF page_path = "/" THEN "/ (homepage)" ELSE page_path

\* lines 160-165: the title of the first title tag of the head
TitleOf(page) ==
    IF page.head /\ page.title_tag /\ page.title_string # ""
    THEN strip(page.title_string)
    ELSE ""

\* lines 168-171: the content of the description tag
DescriptionOf(page) == IF page.desc_tag THEN page.content ELSE ""

\* lines 174-177: the href of the canonical link
CanonicalOf(page) == IF page.canonical_tag THEN page.href ELSE ""

\* lines 179-215: the errors of one page
SeoErrors(title, description, canonical) ==
    (IF title # "" THEN <<>> ELSE << "Title tag missing" >>)
    \o (IF description # "" THEN <<>> ELSE << "Meta description missing" >>)
    \o (IF canonical # "" /\ ~StartsWith(canonical, "https://")
        THEN << "Canonical URL should use HTTPS: " \o canonical >> ELSE <<>>)

\* lines 179-215: the warnings of one page, lengths left out of the text
SeoWarnings(title, description, canonical) ==
    (IF title # "" /\ (Len(title) < 50 \/ Len(title) > 60)
     THEN << "Title length (recommended 50-60)" >> ELSE <<>>)
    \o (IF description # "" /\ (Len(description) < 150 \/ Len(description) > 160)
        THEN << "Description length (recommended 150-160)" >> ELSE <<>>)
    \o (IF canonical = "" THEN << "Canonical URL missing" >> ELSE <<>>)

\* has_errors where duplicates do not count
has_errors_PageErrorsOnly(pages_with_issues, duplicate_titles, duplicate_descriptions) ==
    \E i \in 1..Len(pages_with_issues) : pages_with_issues[i].errors # <<>>

\* lines 238-284: has_errors
has_errors(pages_with_issues, duplicate_titles, duplicate_descriptions) ==
    \/ \E i \in 1..Len(pages_with_issues) : pages_with_issues[i].errors # <<>>
    \/ duplicate_titles # <<>>
    \/ duplicate_descriptions # <<>>

\* the paths of the sampled trees under pages_dir, in the order sorted()
\* gives them
SeoSortedPaths ==
    << "500.html", "_error.html", "about/index.html", "about.html", "index.html" >>

\* the most pages a sampled tree holds
MaxSeoPages == 3

Ten == "0123456789"

\* a title of 50 characters and another of 52
Title50 == "Cennso " \o Ten \o Ten \o Ten \o Ten \o "abc"
Title52 == "Network " \o Ten \o Ten \o Ten \o Ten \o "abcd"

\* a description of 150 characters and another of 151
Description150 ==
    Ten \o Ten \o Ten \o Ten \o Ten \o Ten \o Ten \o Ten \o Ten \o Ten
        \o Ten \o Ten \o Ten \o Ten \o Ten
Description151 == "x" \o Description150

SeoPage(title_string, content, href) ==
    [readable |-> TRUE, head |-> TRUE, title_tag |-> TRUE, title_string |-> title_string,
     desc_tag |-> TRUE, content |-> content, canonical_tag |-> TRUE, href |-> href]

\* the sampled pages: complete pages with equal or different titles and
\* descriptions, a title with blanks around it, a short title, an insecure
\* canonical URL, a page with no metadata, and a file that is not UTF-8
SeoPages ==
    { SeoPage(Title50, Description150, "https://cennso.com/"),
      SeoPage("  " \o Title50 \o "\n", Description151, "https://cennso.com/a"),
      SeoPage(Title52, Description150, "https://cennso.com/b"),
      SeoPage("Home", Description151, "https://cennso.com/c"),
      SeoPage(Title52, Description151, "http://cennso.com/d"),
      SeoPage("  ", "", "https://cennso.com/e"),
      [SeoPage("", "", "") EXCEPT !.head = FALSE, !.title_tag = FALSE, !.desc_tag = FALSE,
                                  !.canonical_tag = FALSE],
      [SeoPage("", "", "") EXCEPT !.readable = FALSE] }

SeoTrees ==
    UNION { [paths -> SeoPages] :
            paths \in { P \in SUBSET { SeoSortedPaths[i] : i \in 1..Len(SeoSortedPaths) } :
                          Cardinality(P) <= MaxSeoPages } }

InitSeo ==
    /\ script = "validate-seo"
    /\ \/ /\ block = [exists |-> TRUE]
          /\ fs \in SeoTrees
       \/ /\ block = [exists |-> FALSE]
          /\ fs = << >>
    /\ pc = "start"
    /\ html_files = <<>>
    /\ idx = 1
    /\ all_pages = {}
    /\ public_files = {}
    /\ all_errors = <<>>
    /\ all_warnings = <<>>
    /\ all_issues = <<>>
    /\ files = <<>>
    /\ report = <<>>
    /\ exit_code = -1
    /\ result = NoResult
    /\ exc = ""
    /\ all_broken_links = <<>>
    /\ run = 1
    /\ prev_report = <<>>
    /\ prev_exit = -1
    /\ sidx = 1
    /\ pages_with_schemas = 0
    /\ total_schemas = 0

\* lines 117-120: pages_dir does not exist
SeoNoPagesDir ==
    /\ script = "validate-seo"
    /\ pc = "start"
    /\ ~block.exists
    /\ exit_code' = 1
    /\ pc' = "done"
    /\ UNCHANGED <<html_files, fs, idx, exc, link_vars, sd_vars, scan_vars>>

\* lines 123-131: the .html files whose name neither starts with _ nor is
\* 500.html, as sorted() orders them (line 147)
SeoHtmlFiles(fsys) ==
    SelectSeq(SeoSortedPaths,
              LAMBDA f : /\ f \in DOMAIN fsys
                         /\ ~StartsWith(f, "_")
                         /\ f # "500.html")

\* lines 133-135: no page to validate
SeoNoHtmlFiles ==
    /\ script = "validate-seo"
    /\ pc = "start"
    /\ block.exists
    /\ SeoHtmlFiles(fs) = <<>>
    /\ exit_code' = 1
    /\ pc' = "done"
    /\ UNCHANGED <<html_files, fs, idx, exc, link_vars, sd_vars, scan_vars>>

\* lines 123-147: the pages to validate
SeoStart ==
    /\ script = "validate-seo"
    /\ pc = "start"
    /\ block.exists
    /\ SeoHtmlFiles(fs) # <<>>
    /\ html_files' = SeoHtmlFiles(fs)
    /\ pc' = "pages"
    /\ UNCHANGED <<fs, idx, exit_code, exc, link_vars, sd_vars, scan_vars>>

\* lines 147-227: one iteration of the loop over the pages
SeoValidatePage ==
    /\ script = "validate-seo"
    /\ pc = "pages"
    /\ idx <= Len(html_files)
    /\ fs[html_files[idx]].readable
    /\ LET page        == fs[html_files[idx]]
           page_path   == page_path_of(html_files[idx])
           title       == TitleOf(page)
           description == DescriptionOf(page)
           canonical   == CanonicalOf(page)
           errors      == SeoErrors(title, description, canonical)
           warnings    == SeoWarnings(title, description, canonical)
       IN  /\ all_pages' = IF title # "" THEN all_pages \cup {title} ELSE all_pages
           /\ all_errors' = IF title # "" /\ title \in all_pages
                            THEN Append(all_errors, << page_path, title >>)
                            ELSE all_errors
           /\ public_files' = IF description # "" THEN public_files \cup {description}
                              ELSE public_files
           /\ all_warnings' = IF description # "" /\ description \in public_files
                              THEN Append(all_warnings, << page_path, description >>)
                              ELSE all_warnings
           /\ all_issues' = IF errors # <<>> \/ warnings # <<>>
                            THEN Append(all_issues,
                                        [path |-> page_path, file |-> html_files[idx],
                                         errors |-> errors, warnings |-> warnings,
                                         title |-> title, description |-> description,
                                         canonical |-> canonical])
                            ELSE all_issues
    /\ idx' = idx + 1
    /\ UNCHANGED <<pc, html_files, fs, exit_code, exc, all_broken_links, run, prev_report,
                   prev_exit, sidx, block, result, pages_with_schemas, total_schemas,
                   script, files, report>>

\* lines 153-155 and 229-230: a page that cannot be read is reported and
\* left out
SeoPageRaises ==
    /\ script = "validate-seo"
    /\ pc = "pages"
    /\ idx <= Len(html_files)
    /\ ~fs[html_files[idx]].readable
    /\ report' = Append(report, "Error parsing " \o html_files[idx])
    /\ idx' = idx + 1
    /\ UNCHANGED <<pc, html_files, fs, exit_code, exc, link_vars, sd_vars, script, files,
                   all_issues>>

\* lines 232-330 and 334: the status main returns
SeoReturn ==
    /\ script = "validate-seo"
    /\ pc = "pages"
    /\ idx > Len(html_files)
    /\ exit_code' = IF has_errors(all_issues, all_errors, all_warnings) THEN 1 ELSE 0
    /\ pc' = "done"
    /\ UNCHANGED <<html_files, fs, idx, exc, link_vars, sd_vars, scan_vars>>

NextSeo ==
    \/ SeoNoPagesDir
    \/ SeoNoHtmlFiles
    \/ SeoStart
    \/ SeoValidatePage
    \/ SeoPageRaises
    \/ SeoReturn

SpecSeo == InitSeo /\ [][NextSeo]_vars

(***************************************************************************)
(* Claims about check-internal-links.py (checked under SpecLinks)          *)
(***************************************************************************)
\* the scan loop has run to its end and the report has been printed
LinksReported == pc = "done" /\ Len(html_files) > 0

\* the route the contract gives a rendered file: its path without the
\* extension, a trailing index segment collapsed to the directory route
DirectoryRoute(rel) ==
    LET p == "/" \o DropLast(rel, 5) IN
    IF p = "/index" THEN "/"
    ELSE IF EndsWith(p, "/index") THEN DropLast(p, 6)
    ELSE p

ReportedHrefs == { all_broken_links[i][2] : i \in 1..Len(all_broken_links) }

\* C2: the valid-route set holds the directory route of every rendered page
\* (/index -> /, /blog/index -> /blog), so that when blog/index.html is
\* rendered no link to /blog or /blog/ is reported as broken.
C2_IndexRouteCollapsed ==
    LinksReported =>
        /\ \A f \in DOMAIN fs : DirectoryRoute(f) \in all_pages
        /\ "blog/index.html" \in DOMAIN fs =>
              ReportedHrefs \cap {"/blog", "/blog/"} = {}

\* an href is internal: no URL scheme, not fragment-only, not mailto:, not tel:
C3_Internal(h) ==
    /\ ~UrlHasScheme(h)
    /\ ~(Len(h) > 0 /\ Char(h, 1) = "#")
    /\ ~StartsWith(h, "mailto:")
    /\ ~StartsWith(h, "tel:")

\* the path of an href after trailing-slash normalization
C3_NormalizedPath(h) ==
    LET p == UrlPath(h) IN
    IF Len(p) > 1 /\ Char(p, Len(p)) = "/" THEN SubSeq(p, 1, Len(p) - 1) ELSE p

\* the entries the claim expects for one page, in document order
C3_Expected(rel) ==
    LET hs == SelectSeq(fs[rel], LAMBDA h :
                  h # NoHref /\ C3_Internal(h) /\ C3_NormalizedPath(h) \notin all_pages)
    IN  [i \in 1..Len(hs) |-> <<url_path_of(rel), hs[i]>>]

RECURSIVE C3_ExpectedAll(_)
C3_ExpectedAll(n) ==
    IF n = 0 THEN <<>> ELSE C3_ExpectedAll(n - 1) \o C3_Expected(html_files[n])

C4_PublicFileIsValidRoute ==
    LinksReported =>
        \A h \in ReportedHrefs : UrlPath(h) \notin public_files

\* C7: a file that cannot be decoded is skipped and nothing else: the run
\* still evaluates every file and ends with the report and its exit status.
C7_UndecodableFileSkipped ==
    (exit_code # -1 /\ Len(html_files) > 0) =>
        (pc = "done" /\ idx = Len(html_files) + 1)

\* C8: a second run on the unchanged tree reports the same sequence of
\* issues and the same exit status, whatever order the directory is
\* enumerated in.
C8_RerunSameReport ==
    (run = 2 /\ pc = "done") =>
        (all_broken_links = prev_report /\ exit_code = prev_exit)

(***************************************************************************)
(* Claims about validate-structured-data.py (checked under SpecSD)         *)
(***************************************************************************)
\* block texts that json.loads rejects
InvalidJsonTexts ==
    { "{", "{\"@type\": \"Person\",}", "{'@type':'Person'}", " ", "[1,]", "{\"a\":1} x" }

\* C5: a block whose text is not valid JSON yields valid = false, exactly
\* one error (the syntax error), no warning, and none of the @type,
\* required-property and URL checks is made on it.
C5_InvalidJsonOneSyntaxError ==
    block \in InvalidJsonTexts =>
        /\ result.exc = ""
        /\ ~result.valid
        /\ Len(result.errors) = 1
        /\ StartsWith(result.errors[1], "JSON syntax error")
        /\ result.warnings = <<>>
        /\ result.calls = <<"validate_json_syntax">>
        /\ result.type_check = NotChecked

\* a block with invalid JSON has been validated and its error collected
C5_Witness ==
    /\ block \in InvalidJsonTexts
    /\ pc = "done"
    /\ \E i \in 1..Len(all_errors) :
          all_errors[i] = ScriptLine("index.html", 1, "JSON syntax error")

\* C6: every block content, a top-level value that is no object and an
\* @type list with non-string entries included, gives a result and not an
\* exception, and the run goes on with the remaining blocks and pages.
C6_AnomalyBecomesIssue ==
    /\ result.exc = ""
    /\ exc \notin {"AttributeError", "TypeError"}

\* the @type values validate_schema_type is to accept
C10_Accepted(data) ==
    LET t == GetOr(data, "@type", NoData) IN
    \/ t.k = "str" /\ InValidTypes(t)
    \/ t.k = "list" /\ \A i \in 1..Len(t.e) : t.e[i].k = "str" /\ InValidTypes(t.e[i])

\* C10: validate_schema_type accepts an object exactly when its @type is a
\* whitelisted string or a list of whitelisted entries, and rejects every
\* other object with one error.
C10_SchemaTypeWhitelist ==
    LET syntax_check == validate_json_syntax(block) IN
    (block # "" /\ syntax_check.valid /\ syntax_check.data.k = "obj") =>
        /\ result.type_check.exc = ""
        /\ result.type_check.valid <=> C10_Accepted(syntax_check.data)
        /\ ~result.type_check.valid => Len(result.type_check.message) > 0

(***************************************************************************)
(* Claims about check-compatible.py (checked under SpecCompat)             *)
(***************************************************************************)
\* position of a path in the order of file paths
PathRank(path) == CHOOSE x \in 1..Len(SortedSources) : SortedSources[x] = path

\* C9: within each criterion group of the printed report the issues are
\* ordered by file path and then by ascending line number.
C9_GroupsInFileLineOrder ==
    \A g \in 1..Len(report) :
        \A i, j \in 1..Len(report[g].items) :
            i < j =>
                LET a == report[g].items[i]
                    b == report[g].items[j]
                IN  \/ PathRank(a.file_path) < PathRank(b.file_path)
                    \/ a.file_path = b.file_path /\ a.line_number <= b.line_number

(***************************************************************************)
(* Claims about the graded checkers (checked under SpecGrade)              *)
(***************************************************************************)
\* conformance level of the WCAG 2.1 success criteria the scripts report
\* without a level field
WcagLevel(sc) ==
    CASE sc \in {"2.3.1", "2.5.1", "2.5.2", "2.5.3", "2.5.4"} -> "A"
      [] sc \in {"2.3.3", "2.5.6"} -> "AAA"
      [] OTHER -> ""

\* an issue graded by severity blocks when it is an error; an issue graded
\* by level blocks at Level A or AA
Blocking(issue) ==
    IF issue.severity # "" THEN issue.severity = "error"
    ELSE IF issue.level # "" THEN issue.level \in {"A", "AA"}
    ELSE WcagLevel(issue.sc) \in {"A", "AA"}

\* C1: once every file has been processed the exit status is 1 exactly when
\* a blocking issue (severity error, or Level A/AA) was collected, and 0
\* otherwise, whatever the number of warnings and Level AAA issues.
C1_ExitOneIffBlockingIssue ==
    (script \in GradedScripts /\ pc = "done") =>
        /\ exit_code \in {0, 1}
        /\ exit_code = 1 <=> \E x \in 1..Len(all_issues) : Blocking(all_issues[x])

\* two or more issues were collected, none of them blocking, and the run
\* ended with status 0
C1_Witness ==
    /\ script \in GradedScripts
    /\ pc = "done"
    /\ Len(all_issues) >= 2
    /\ \A x \in 1..Len(all_issues) : ~Blocking(all_issues[x])
    /\ exit_code = 0

(***************************************************************************)
(* Claims about validate_structured_data (checked under SpecBlock)         *)
(***************************************************************************)
\* the decoded block
BlockData == validate_json_syntax(block).data

\* the block is an object of the given @type with the schema.org context
BlockOfType(types) ==
    /\ validate_json_syntax(block).valid
    /\ BlockData.k = "obj"
    /\ GetOr(BlockData, "@type", NoData) \in { JStr(ty) : ty \in types }
    /\ GetOr(BlockData, "@context", NoData) = JStr("https://schema.org")

\* an ISO 8601 calendar date, or date and time of day joined by T with an
\* optional Z or UTC offset
Iso8601(v) ==
    /\ v.k = "str"
    /\ LET t == v.s
           tail == IF Len(t) > 11 THEN SubSeq(t, 12, Len(t)) ELSE ""
       IN  /\ Len(t) >= 10
           /\ IsIsoDate(SubSeq(t, 1, 10))
           /\ \/ Len(t) = 10
              \/ /\ Len(t) > 11
                 /\ Char(t, 11) = "T"
                 /\ \/ IsIsoTime(tail)
                    \/ EndsWith(tail, "Z") /\ IsIsoTime(DropLast(tail, 1))
                    \/ /\ Len(tail) > 6
                       /\ IsIsoTime(DropLast(tail, 6))
                       /\ IsIsoOffset(SubSeq(tail, Len(tail) - 5, Len(tail)))

\* C11: an Article or BlogPosting block without other defect has as many
\* issues as properties missing among headline, author and datePublished,
\* plus one when datePublished is present and not ISO 8601; a block missing
\* only author has the one issue that names author.
C11_ArticleIssuesCountMissing ==
    (script = "validate_structured_data" /\ pc = "returned"
        /\ BlockOfType({"Article", "BlogPosting"})) =>
        LET missing == { p \in {"headline", "author", "datePublished"} : ~HasKey(BlockData, p) }
            bad_date == /\ HasKey(BlockData, "datePublished")
                        /\ ~Iso8601(GetKey(BlockData, "datePublished"))
        IN  /\ Len(result.errors) = Cardinality(missing) + (IF bad_date THEN 1 ELSE 0)
            /\ (missing = {"author"} /\ ~bad_date) =>
                   result.errors = << GetKey(BlockData, "@type").s \o " missing 'author'" >>

\* a Question object with a name and an acceptedAnswer that is an Answer
\* object with text
WellFormedQuestion(q) ==
    /\ q.k = "obj"
    /\ GetOr(q, "@type", NoData) = JStr("Question")
    /\ HasKey(q, "name")
    /\ HasKey(q, "acceptedAnswer")
    /\ LET answer == GetKey(q, "acceptedAnswer") IN
       /\ answer.k = "obj"
       /\ GetOr(answer, "@type", NoData) = JStr("Answer")
       /\ HasKey(answer, "text")

\* the number of well-formed Question/Answer pairs of a FAQPage object
WellFormedPairs(data) ==
    LET me == GetOr(data, "mainEntity", NoData) IN
    IF me.k = "list"
    THEN Cardinality({ i \in 1..Len(me.e) : WellFormedQuestion(me.e[i]) })
    ELSE IF WellFormedQuestion(me) THEN 1 ELSE 0

\* C12: a FAQPage block with fewer than two well-formed Question/Answer
\* pairs is invalid and has at least one error, whatever the shapes of
\* mainEntity and acceptedAnswer.
C12_FaqNeedsTwoPairs ==
    (script = "validate_structured_data" /\ pc = "returned" /\ BlockOfType({"FAQPage"})) =>
        (WellFormedPairs(BlockData) < 2 => (~result.valid /\ Len(result.errors) >= 1))

\* C13: every URL-valued property of a block (url and logo in the sampled
\* blocks) is checked against the URL pattern: a value that does not match
\* gives an error, a value that matches and is not https gives a warning
\* and no error, and a block with nothing but such warnings is valid.
C13_UrlPropertiesChecked ==
    (script = "validate_structured_data" /\ pc = "returned"
        /\ BlockOfType({"Organization"})) =>
        /\ \A p \in {"url", "logo"} :
              (HasKey(BlockData, p) /\ GetKey(BlockData, p).k = "str") =>
                  LET u == GetKey(BlockData, p).s IN
                  /\ ~validate_url_format(u) =>
                        "Invalid URL format: " \o u \in SeqRange(result.errors)
                  /\ (validate_url_format(u) /\ ~StartsWith(u, "https://")) =>
                        /\ "URL should use https:// (got " \o u \o ")" \in SeqRange(result.warnings)
                        /\ "Invalid URL format: " \o u \notin SeqRange(result.errors)
        /\ result.errors = <<>> => result.valid

(***************************************************************************)
(* Claims about the rules (checked under SpecRule)                         *)
(***************************************************************************)
\* the text of the line an issue points at
IssueLine(issue) == fs[issue.file_path][issue.line_number]

\* the line holds an aria-label attribute with a non-empty value, written
\* as a quoted string or as a JSX expression
HasAriaLabel(line) ==
    \E i \in 1..Len(line) :
        /\ StartsAt(line, "aria-label", i)
        /\ LET eq == SkipWs(line, i + 10)
               v  == SkipWs(line, eq + 1)
           IN  /\ CharAt(line, eq) = "="
               /\ \/ CharAt(line, v) \in Quotes /\ CharAt(line, v + 1) \notin (Quotes \cup {""})
                  \/ CharAt(line, v) = "{" /\ CharAt(line, v + 1) \notin {"}", ""}

\* the messages of the missing-name and missing-label issues
MissingNameMessages ==
    { "Interactive element may be missing accessible name (aria-label/aria-labelledby or visible text). Ensure Name, Role, Value is exposed to assistive technologies.",
      "Form control missing associated label (use <label for=\"id\"> or aria-label/aria-labelledby). Placeholder is not a visible label.",
      "Placeholder text used as the only label. Placeholders are not sufficient labels; provide a visible <label>." }

\* C14: no missing-name or missing-label issue is emitted for an interactive
\* element that carries a non-empty aria-label, wherever the attribute
\* stands in the tag and however its value is written.
C14_AriaLabelSilencesNameRule ==
    (script \in {"detect_missing_name_role_value", "find_labelled_inputs"}
        /\ pc = "returned") =>
        \A x \in 1..Len(all_issues) :
            all_issues[x].message \in MissingNameMessages =>
                ~HasAriaLabel(IssueLine(all_issues[x]))

\* the line is a visible input with a placeholder, without aria-label or
\* aria-labelledby, without an id that a label of the file refers to, and
\* without a type or name that suggests email or phone
PlaceholderOnlyInput(lines, n) ==
    LET line == lines[n]
    IN  /\ StartsWith(line, "<input ")
        /\ Contains(line, " placeholder=\"")
        /\ ~Contains(line, "hidden")
        /\ ~Contains(line, "aria-label")
        /\ ~Contains(line, "email") /\ ~Contains(line, "phone") /\ ~Contains(line, "tel")
        /\ \A k \in 1..Len(lines) : ~StartsWith(lines[k], "<label")

IssuesAtLine(n) == SelectSeq(all_issues, LAMBDA issue : issue.line_number = n)

\* C15: for a visible input with a placeholder and no label, aria-label or
\* aria-labelledby, find_labelled_inputs emits exactly one issue, the
\* missing-label issue.
C15_PlaceholderOnlyOneIssue ==
    (script = "find_labelled_inputs" /\ pc = "returned") =>
        \A n \in 1..Len(fs[files[1]]) :
            PlaceholderOnlyInput(fs[files[1]], n) =>
                /\ Len(IssuesAtLine(n)) = 1
                /\ StartsWith(IssuesAtLine(n)[1].message, "Form control missing associated label")

\* the level of the heading element a line of a page opens, 0 when the
\* line opens none
HeadingLevelOfLine(line) ==
    LET l == Lower(line)
        levels == { n \in 1..6 :
                      \/ StartsWith(l, "<h" \o SubSeq("123456", n, n) \o ">")
                      \/ /\ StartsWith(l, "<gradientheader ")
                         /\ Contains(l, "as=\"h" \o SubSeq("123456", n, n) \o "\"") }
    IN  IF levels = {} THEN 0 ELSE CHOOSE n \in levels : TRUE

\* the heading levels of the page in document order
HeadingLevels ==
    LET lines == fs[files[1]]
        RECURSIVE From(_)
        From(i) == IF i > Len(lines) THEN <<>>
                   ELSE (IF HeadingLevelOfLine(lines[i]) > 0
                         THEN << HeadingLevelOfLine(lines[i]) >> ELSE <<>>) \o From(i + 1)
    IN  From(1)

\* the heading levels of the rendered page: a PageHeader element on the
\* first line renders the level-1 heading of the page
PageLevels ==
    IF StartsWith(fs[files[1]][1], "<PageHeader ")
    THEN << 1 >> \o HeadingLevels ELSE HeadingLevels

\* the adjacent pairs of a level sequence that skip a level
SkippedPairs(levels) == { i \in 2..Len(levels) : levels[i] > levels[i - 1] + 1 }

LevelOnes(levels) == { i \in 1..Len(levels) : levels[i] = 1 }

HeadingRuleDone ==
    /\ script = "check_heading_hierarchy"
    /\ pc # "call"
    /\ is_page(files[1])
    /\ fs[files[1]] # <<>>

\* C16: for every page file, with or without a PageHeader element, the
\* heading rule emits an issue when the first heading is not level 1, when
\* a heading is more than one level deeper than the one before it, or when
\* the page holds more than one level-1 heading.
C16_HeadingFaultsReported ==
    HeadingRuleDone =>
        LET levels == PageLevels
        IN  (\/ Len(levels) > 0 /\ levels[1] # 1
             \/ SkippedPairs(levels) # {}
             \/ Cardinality(LevelOnes(levels)) > 1)
            => all_issues # <<>>

\* C17: for a page whose first heading is its only level-1 heading, the
\* number of issues of the heading rule is the number of adjacent heading
\* pairs in which the second is more than one level deeper than the first.
C17_IssuesCountSkippedPairs ==
    HeadingRuleDone =>
        LET levels == PageLevels
        IN  (Len(levels) > 0 /\ LevelOnes(levels) = {1})
            => /\ pc = "returned"
               /\ Len(all_issues) = Cardinality(SkippedPairs(levels))

\* the role of the element a line holds: the value of its role attribute,
\* otherwise button for a button element and link for an a element,
\* otherwise none
RoleOfElement(line) ==
    LET explicit == AttrValue(line, "role")
    IN  IF explicit # "" THEN explicit
        ELSE IF StartsWith(line, "<button") THEN "button"
        ELSE IF StartsWith(line, "<a ") THEN "link"
        ELSE ""

\* C18: for every ARIA state attribute of the table on an element, an issue
\* about that attribute is emitted when the role of the element, explicit
\* or implicit, is not among the roles allowed for the attribute.
C18_AttributeOnWrongRoleReported ==
    (script = "detect_aria_attribute_role_mismatch" /\ pc = "returned") =>
        \A n \in 1..Len(fs[files[1]]) : \A a \in 1..Len(ARIA_ATTRIBUTE_ROLE_REQUIREMENTS) :
            LET line  == fs[files[1]][n]
                attr  == ARIA_ATTRIBUTE_ROLE_REQUIREMENTS[a][1]
                roles == ARIA_ATTRIBUTE_ROLE_REQUIREMENTS[a][2]
            IN  (Contains(line, attr \o "=") /\ RoleOfElement(line) \notin SeqRange(roles))
                => \E x \in 1..Len(all_issues) :
                      /\ all_issues[x].line_number = n
                      /\ StartsWith(all_issues[x].message, "Attribute \"" \o attr \o "\"")

\* the line calls setTimeout or setInterval with a literal duration below
\* 5000 ms
ShortTimerCall(line) ==
    /\ Contains(line, "setTimeout(") \/ Contains(line, "setInterval(")
    /\ \E d \in {"300", "1000", "4999"} : Contains(line, ", " \o d \o ")")

\* C19: check_timing_adjustable emits no issue for a line that calls
\* setTimeout or setInterval with a literal duration below 5000 ms,
\* whatever vocabulary surrounds the line.
C19_ShortDurationExempt ==
    (script = "check_timing_adjustable" /\ pc = "returned") =>
        \A x \in 1..Len(all_issues) :
            ~ShortTimerCall(fs[files[1]][all_issues[x][2]])

\* the window of line n, lines n-9 to n+10, holds in lower case one of the
\* words that mark a timer as an animation or a debounce
SafeVocabulary(n) ==
    LET lines == fs[files[1]]
    IN  \E k \in Max(1, n - 9)..Min(Len(lines), n + 10) :
        \E w \in {"animation", "transition", "delay", "fade", "slide", "debounce", "throttle"} :
            Contains(Lower(lines[k]), w)

\* the lines of the file issues point at
FlaggedLines == { all_issues[x][2] : x \in 1..Len(all_issues) }

TimingRuleDone ==
    /\ script = "check_timing_adjustable"
    /\ pc = "returned"
    /\ ~Contains(files[1], "StatusModal.tsx")

ListTypeAt ==
    { i \in 1..Len(block) : \E t \in TypesWithRequired :
        StartsAt(block, "\"@type\":[\"" \o t \o "\"]", i) }

\* the block with its one-element @type list written as the string
StringTyped ==
    LET i == CHOOSE x \in ListTypeAt : TRUE
        close == FindFrom(block, {"]"}, i)
    IN  SubSeq(block, 1, i + 7) \o SubSeq(block, i + 9, close - 1)
            \o SubSeq(block, close + 1, Len(block))

\* C29: a block whose @type is the one-element list [T], T a type with
\* required properties, gets the same issues as the same block with @type
\* written as the string T.
C29_ListTypeSameIssues ==
    (script = "validate_structured_data" /\ pc = "returned" /\ ListTypeAt # {}) =>
        result.errors = validate_structured_data(StringTyped).errors

\* the file holds a state-update call and, as a word, a status keyword
\* (every sampled file is shorter than 200 characters)
StatusNearStateChange ==
    LET content == Join(fs[files[1]], "")
        lc == Lower(content)
    IN  /\ \E i \in 1..Len(content) : StateChangeEnd(content, i) # 0
        /\ \E k \in 1..Len(keywords) : \E i \in 1..Len(lc) :
              /\ StartsAt(lc, keywords[k], i)
              /\ CharAt(lc, i - 1) \notin WordChars
              /\ CharAt(lc, i + Len(keywords[k])) \notin WordChars

\* the file holds an aria-live attribute or a status or alert role
HasLiveRegion ==
    LET lc == Lower(Join(fs[files[1]], ""))
    IN  \/ Contains(lc, "aria-live=")
        \/ \E q \in Quotes : \E r \in {"status", "alert"} :
              Contains(lc, "role=" \o q \o r \o q)

\* C25: a file with a state-update call, a status keyword near it and no
\* live region yields exactly one SC 4.1.3 Level A issue at line 1; a file
\* without such a call or with a live region yields none.
C25_StatusMessageIssue ==
    (script = "detect_missing_status_messages" /\ pc = "returned") =>
        IF StatusNearStateChange /\ ~HasLiveRegion
        THEN /\ Len(all_issues) = 1
             /\ all_issues[1].criterion = "SC 4.1.3"
             /\ all_issues[1].level = "A"
             /\ all_issues[1].line_number = 1
        ELSE all_issues = <<>>

(***************************************************************************)
(* Claims about check-contrast.py (checked under SpecContrast)             *)
(***************************************************************************)
\* C20: for six-digit hex colors, contrast_ratio(fg, bg) equals
\* contrast_ratio(bg, fg), contrast_ratio(x, x) is 1, and every ratio is at
\* least 1.
C20_ContrastRatioSymmetric ==
    script = "check-contrast" =>
        \A c \in report :
            /\ c.ratio.num >= c.ratio.den
            /\ c.color1 = c.color2 => c.ratio.num = c.ratio.den
            /\ \A d \in report :
                  (d.color1 = c.color2 /\ d.color2 = c.color1) => d.ratio = c.ratio

\* both orders of two colors of different luminance, and a color with
\* itself, have been computed
C20_Witness ==
    /\ script = "check-contrast"
    /\ \E c \in report : \E d \in report : \E e \in report :
          /\ c.color1 = d.color2 /\ c.color2 = d.color1
          /\ c.ratio.num > c.ratio.den
          /\ e.color1 = e.color2

(***************************************************************************)
(* Claims about check_wcag_aa and the status of check-contrast (checked    *)
(* under SpecWcag)                                                         *)
(***************************************************************************)
\* the ratio is below 4.5 for normal text, below 3.0 for large text
BelowThreshold(ratio, is_large) ==
    IF is_large THEN ratio.num < 3 * ratio.den ELSE 2 * ratio.num < 9 * ratio.den

\* C21: check_wcag_aa passes a ratio exactly when it is at least 4.5 for
\* normal text and at least 3.0 for large text, and main returns 1 exactly
\* when a test case is below the threshold of its large-text flag, else 0.
C21_ThresholdsAndExit ==
    /\ (script = "check_wcag_aa" /\ pc = "returned") =>
          (result.passes <=> ~BelowThreshold(block[1], block[2]))
    /\ (script = "check-contrast" /\ pc = "done") =>
          /\ exit_code \in {0, 1}
          /\ exit_code = 1 <=>
                \E i \in 1..Len(files) :
                    BelowThreshold(contrast_ratio(COLORS[files[i][2]], COLORS[files[i][3]]),
                                   files[i][5])

\* a ratio of exactly 4.5 has passed for normal text
C21_Witness ==
    /\ script = "check_wcag_aa"
    /\ pc = "returned"
    /\ block = << [num |-> 9, den |-> 2], FALSE >>
    /\ result.passes


(***************************************************************************)
(* Claims about optimize-images.py (checked under SpecOptimize)            *)
(***************************************************************************)
\* the run has gone through the loop over the images it selected
ImagesProcessed ==
    /\ script = "optimize-images"
    /\ pc \in {"done", "checked"}
    /\ ~(block.quality < 1 \/ block.quality > 100)

\* every call of optimize_image made so far returned success
EverySuccess == \A i \in 1..Len(all_issues) : all_issues[i].success

\* C22: with --dry-run the filesystem stays as it was at the start, no
\* operation on it is made (no write, no .bak copy, no deletion), and the
\* size reported for each image is the estimate.
C22_DryRunLeavesFilesystem ==
    (script = "optimize-images" /\ block.dry_run) =>
        /\ fs = public_files
        /\ report = <<>>
        /\ \A i \in 1..Len(all_issues) :
              /\ all_issues[i].success
              /\ all_issues[i].new_size =
                     EstimatedSize(public_files[all_issues[i].path].size,
                                   Lower(suffix(all_issues[i].path)), block.quality)

\* a finished dry run with --backup over a convertible image and an
\* oversized WebP file
C22_Witness ==
    /\ ImagesProcessed
    /\ block.dry_run
    /\ block.backup
    /\ Len(all_issues) >= 2
    /\ \E i \in 1..Len(all_issues) : all_issues[i].action = "compress"
    /\ \E i \in 1..Len(all_issues) : all_issues[i].action = "convert to webp"

\* C23: after a run with --backup that is not a dry run, every file of the
\* initial tree whose content was replaced or that was deleted has a .bak
\* copy with its original content.
C23_BackupOfEveryChangedFile ==
    (ImagesProcessed /\ block.backup /\ ~block.dry_run) =>
        \A p \in DOMAIN public_files :
            (p \notin DOMAIN fs \/ fs[p] # public_files[p]) =>
                /\ (p \o ".bak") \in DOMAIN fs
                /\ fs[p \o ".bak"] = public_files[p]

\* C26: every deletion of an original comes after a save, in the same call
\* of optimize_image, of a WebP encoding of that image to the output path.
C26_DeletedOnlyAfterEncoding ==
    script = "optimize-images" =>
        \A i \in 1..Len(report) :
            report[i].op = "unlink" =>
                \E j \in 1..(i - 1) :
                    /\ report[j].op = "save"
                    /\ report[j].call = report[i].call
                    /\ report[j].image = report[i].image
                    /\ report[j].path = WithSuffix(report[i].path, ".webp")

\* C27: after a run that is not a dry run and reported no error, over a tree
\* with a.png and a.jpg, a WebP encoding of each of the two is on disk.
C27_SameStemBothKept ==
    ( /\ ImagesProcessed
      /\ ~block.dry_run
      /\ exit_code = 0
      /\ {"public/assets/common/a.png", "public/assets/common/a.jpg"}
             \subseteq DOMAIN public_files ) =>
        \A p \in {"public/assets/common/a.png", "public/assets/common/a.jpg"} :
            \E q \in DOMAIN fs :
                /\ fs[q].format = "webp"
                /\ fs[q].image = public_files[p].image

\* C28: after a run that is not a dry run in which every selected image
\* succeeded, find_images_to_optimize returns only WebP files over 100KB
\* (no convertible, SVG or .bak file) and check-image-optimization.py finds
\* no format issue.
C28_SecondRunOnlyLargeWebp ==
    (ImagesProcessed /\ pc = "checked" /\ ~block.dry_run /\ EverySuccess) =>
        /\ \A i \in 1..Len(all_pages) :
              /\ Lower(suffix(all_pages[i])) = ".webp"
              /\ fs[all_pages[i]].size > 100 * 1024
        /\ all_broken_links = {}

\* a run with --backup that converted two images, one of them to a WebP
\* file still over 100KB, beside an SVG file
C28_Witness ==
    /\ ImagesProcessed
    /\ pc = "checked"
    /\ ~block.dry_run
    /\ block.backup
    /\ EverySuccess
    /\ Len(all_issues) >= 2
    /\ \E i \in 1..Len(report) : report[i].op = "unlink"
    /\ \E p \in DOMAIN fs : Lower(suffix(p)) = ".bak"
    /\ "public/assets/common/logo.svg" \in DOMAIN fs
    /\ all_pages # <<>>


(***************************************************************************)
(* Claims about validate-seo.py (checked under SpecSeo)                    *)
(***************************************************************************)
\* the positions in html_files of the validated pages with the title t
PagesWithTitle(t) ==
    { i \in 1..Len(html_files) :
        fs[html_files[i]].readable /\ TitleOf(fs[html_files[i]]) = t }

\* the positions in html_files of the validated pages with the description d
PagesWithDescription(d) ==
    { i \in 1..Len(html_files) :
        fs[html_files[i]].readable /\ DescriptionOf(fs[html_files[i]]) = d }

\* the page paths of the positions of S but the first, in sorted order
AfterTheFirst(S) ==
    LET rest == S \ { CHOOSE i \in S : \A j \in S : i <= j }
    IN  [k \in 1..Cardinality(rest) |->
            page_path_of(html_files[CHOOSE i \in rest :
                                        Cardinality({ j \in rest : j < i }) = k - 1])]

\* the page paths of the entries of a list of duplicates with the value v
EntriesFor(duplicates, v) ==
    LET at == SelectSeq(duplicates, LAMBDA e : e[2] = v)
    IN  [k \in 1..Len(at) |-> at[k][1]]

\* some title or description is that of two validated pages or more
SharedMetadata ==
    \/ \E i \in 1..Len(html_files) :
          /\ fs[html_files[i]].readable
          /\ TitleOf(fs[html_files[i]]) # ""
          /\ Cardinality(PagesWithTitle(TitleOf(fs[html_files[i]]))) >= 2
    \/ \E i \in 1..Len(html_files) :
          /\ fs[html_files[i]].readable
          /\ DescriptionOf(fs[html_files[i]]) # ""
          /\ Cardinality(PagesWithDescription(DescriptionOf(fs[html_files[i]]))) >= 2

\* C24: when main returns, the duplicate entries of each non-empty title
\* (description) are the validated pages with that title (description) but
\* the first, in sorted order, so n - 1 entries for n pages; every entry is
\* for such a title (description); and the exit status is 1 if a title or a
\* description is shared.
C24_DuplicatesRecordedAndFail ==
    (script = "validate-seo" /\ pc = "done" /\ html_files # <<>>) =>
        /\ \A i \in 1..Len(html_files) :
              (fs[html_files[i]].readable /\ TitleOf(fs[html_files[i]]) # "") =>
                  EntriesFor(all_errors, TitleOf(fs[html_files[i]]))
                      = AfterTheFirst(PagesWithTitle(TitleOf(fs[html_files[i]])))
        /\ \A i \in 1..Len(html_files) :
              (fs[html_files[i]].readable /\ DescriptionOf(fs[html_files[i]]) # "") =>
                  EntriesFor(all_warnings, DescriptionOf(fs[html_files[i]]))
                      = AfterTheFirst(PagesWithDescription(DescriptionOf(fs[html_files[i]])))
        /\ \A k \in 1..Len(all_errors) : PagesWithTitle(all_errors[k][2]) # {}
        /\ \A k \in 1..Len(all_warnings) : PagesWithDescription(all_warnings[k][2]) # {}
        /\ SharedMetadata => exit_code = 1

\* three validated pages with the same title, none with an error of its own
C24_Witness ==
    /\ script = "validate-seo"
    /\ pc = "done"
    /\ Len(html_files) = 3
    /\ Cardinality(PagesWithTitle(Title50)) = 3
    /\ Len(all_errors) = 2
    /\ \A i \in 1..Len(all_issues) : all_issues[i].errors = <<>>
    /\ exit_code = 1

====
